---- MODULE Spec2Model ----
(***************************************************************************)
(* Key cache writes (KeyCache::write_ring_key, RingKey::write_file_from_str)*)
(* and the signed-package writer (artifact::sign) of habitat core, modelled *)
(* at the granularity of one filesystem call per step so that several       *)
(* processes sharing one cache directory can interleave.                    *)
(*                                                                          *)
(* Text is modelled as sequences of tokens: a line is a sequence of string  *)
(* tokens, a file content is a sequence of lines, a path is a sequence of   *)
(* tokens.  A partially written file holds a proper prefix of its lines.    *)
(***************************************************************************)
EXTENDS Naturals, Sequences, FiniteSets, TLC

\* ------------------------------------------------------------------ bounds
MaxCalls == 2
MaxFaults == 1

\* --------------------------------------------------------------- constants
Procs == {"p1", "p2"}
None == "none"
Names == {"beyonce", "jayz"}
RevTable == <<"20160504220721", "20160504220722", "20160504220723", "20160504220724">>
RevisionTokens == {RevTable[i] : i \in 1..Len(RevTable)}
Revisions == {RevTable[1], RevTable[2]}
SymKeys == {"keyA", "keyB"}

SECRET_SYM_KEY_VERSION == <<"SYM-SEC-1">>
SECRET_SYM_KEY_SUFFIX == "sym.key"
KEYBYTES == 32

\* files, faults: the filesystem and the I/O failures injected so far
\* pc .. first:  the key cache writers (first is a ghost)
\* sgPc .. sgPre: one run of artifact::sign (sgPre is a ghost)
\* pubCache:     the public signing keys the key cache holds
\* rdPc .. rdLog: one read of a signed package (rdLog is a ghost)
\* lkOp .. lkValue: one lookup in the key cache, made once the writers rest
\* crPc .. crOpened: one encrypt and one decrypt with a ring key
VARIABLES files, faults, pc, arg, result, calls, pre, first,
          sgPc, sgKey, sgSig, sgBuf, sgCopied, sgResult, sgPre,
          pubCache, rdPc, rdOp, rdPos, rdHeader, rdResult, rdValue, rdLog,
          lkOp, lkArg, lkResult, lkValue,
          crPc, crKey, crData, crSealed, crGiven, crOpened,
          gnKey, upPc, upSecret, upTries, upLog, upResult, svIn, svOut

kcVars == <<pc, arg, result, calls, pre, first>>

sgVars == <<sgPc, sgKey, sgSig, sgBuf, sgCopied, sgResult, sgPre>>

rdVars == <<pubCache, rdPc, rdOp, rdPos, rdHeader, rdResult, rdValue, rdLog>>

lkVars == <<lkOp, lkArg, lkResult, lkValue>>

crVars == <<crPc, crKey, crData, crSealed, crGiven, crOpened>>

cliVars == <<gnKey, upPc, upSecret, upTries, upLog, upResult, svIn, svOut>>

vars == <<files, faults, kcVars, sgVars, rdVars, lkVars, crVars, cliVars>>

\* ------------------------------------------------------- text and encoding
\* base64::encode of key bytes; the table pairs each byte string with its text.
Base64Table == [keyA |-> "a2V5QQ==", keyB |-> "a2V5Qg==", short |-> "c2hvcnQ="]

Base64Encode(bytes) == Base64Table[bytes]

Base64Decodable(text) == \E b \in DOMAIN Base64Table : Base64Table[b] = text

Base64Decode(text) == CHOOSE b \in DOMAIN Base64Table : Base64Table[b] = text

\* length in bytes of a decoded payload
ByteLen(bytes) == IF bytes \in SymKeys THEN KEYBYTES ELSE 5

\* KeyPair::name_with_rev: "<name>-<revision>"
NameWithRev(name, rev) == <<name, "-", rev>>

\* parse_name_with_rev succeeds iff the string ends in "-<revision>" after a
\* non-empty name
NameWithRevParses(s) ==
    /\ Len(s) >= 3
    /\ s[Len(s)] \in RevisionTokens
    /\ s[Len(s) - 1] = "-"

\* mk_key_filename(cache, name_with_rev, suffix): "<name_with_rev>.<suffix>"
KeyFilename(nwr) == nwr \o <<".", SECRET_SYM_KEY_SUFFIX>>

IsKeyFilename(path) ==
    /\ Len(path) >= 2
    /\ path[Len(path)] = SECRET_SYM_KEY_SUFFIX
    /\ path[Len(path) - 1] = "."

\* randombytes(6) hex-encoded; 48 random bits, distinct per caller
RandomHex(p) == IF p = "p1" THEN "a1b2c3d4e5f6" ELSE "0f1e2d3c4b5a"

\* the temporary file write_file_from_str writes: "<keyfile>.<hex>"
WfsTmpPath_Destination(nwr, p) == KeyFilename(nwr)

WfsTmpPath(nwr, p) == KeyFilename(nwr) \o <<".", RandomHex(p)>>

\* the path the TmpKeyfile guard owns and removes when dropped
TmpGuardPath_Keyfile(nwr, p) == KeyFilename(nwr)

TmpGuardPath(nwr, p) == KeyFilename(nwr) \o <<".", RandomHex(p)>>

\* AtomicWriter's NamedTempFile, created beside the destination
AtomicTmpPath(p) == <<".tmp", RandomHex(p)>>

\* RingKey::to_secret_string
ToSecretString_NoBlankLine(key) ==
    <<SECRET_SYM_KEY_VERSION, NameWithRev(key.name, key.rev),
      <<Base64Encode(key.secret)>>>>

ToSecretString(key) ==
    <<SECRET_SYM_KEY_VERSION, NameWithRev(key.name, key.rev), <<>>,
      <<Base64Encode(key.secret)>>>>

\* FromStr for RingKey (`content.parse()`): identity from the second line,
\* secret from the base64 text of the fourth; a name is one token here
ParseRingKey(c) ==
    [name |-> c[2][1], rev |-> c[2][Len(c[2])], secret |-> Base64Decode(c[4][1])]

\* hash::hash_string / hash::hash_file: one digest algorithm over the bytes
HashString(content) == <<"blake2b", content>>

\* ------------------------------------------------------------- filesystem
IsFile(fs, path) == path \in DOMAIN fs

FsWrite(fs, path, c) ==
    [q \in DOMAIN fs \cup {path} |-> IF q = path THEN c ELSE fs[q]]

FsRemove(fs, path) == [q \in DOMAIN fs \ {path} |-> fs[q]]

\* fs::rename replaces an existing destination
FsRename(fs, from, to) == FsRemove(FsWrite(fs, to, fs[from]), from)

HashFile(fs, path) == HashString(fs[path])

\* Drop of the temporary-file guards: remove the file if it is still there
DropTmp(fs, path) == IF IsFile(fs, path) THEN FsRemove(fs, path) ELSE fs

KeyFiles(fs) == {f \in DOMAIN fs : IsKeyFilename(f)}

KeyFilesOnly(fs) == [f \in KeyFiles(fs) |-> fs[f]]

\* ------------------------------------------------------------------ inputs
\* the keys callers hand in: two keys that collide on one identity, a later
\* revision, another name, and a key loaded without its secret
RingKeys ==
    { [name |-> "beyonce", rev |-> RevTable[1], secret |-> "keyA"],
      [name |-> "beyonce", rev |-> RevTable[1], secret |-> "keyB"],
      [name |-> "beyonce", rev |-> RevTable[2], secret |-> "keyB"],
      [name |-> "jayz", rev |-> RevTable[1], secret |-> "keyA"],
      [name |-> "beyonce", rev |-> RevTable[1], secret |-> None] }

ValidContents ==
    {ToSecretString(k) : k \in {r \in RingKeys : r.secret # None}}

InputContents ==
    ValidContents \cup
    { <<>>,
      <<SECRET_SYM_KEY_VERSION>>,
      <<SECRET_SYM_KEY_VERSION, NameWithRev("beyonce", RevTable[1])>>,
      <<SECRET_SYM_KEY_VERSION, NameWithRev("beyonce", RevTable[1]), <<>>>>,
      <<<<"SYM-SEC-2">>, NameWithRev("beyonce", RevTable[1]), <<>>,
        <<Base64Encode("keyA")>>>>,
      <<SECRET_SYM_KEY_VERSION, NameWithRev("beyonce", RevTable[1]), <<>>,
        <<Base64Encode("short")>>>>,
      <<SECRET_SYM_KEY_VERSION, <<"im", "-", "in", "-", "trouble", "-", "123">>,
        <<>>, <<Base64Encode("keyA")>>>> }

\* no key: the value of a slot that holds none
NoKey == [name |-> None, rev |-> None, secret |-> None]

NoArg == [op |-> None, key |-> NoKey, nwr |-> <<>>, content |-> <<>>]

\* ---------------------------------------------------------------- initial
KcIdle ==
    /\ pc = [p \in Procs |-> "idle"]
    /\ arg = [p \in Procs |-> NoArg]
    /\ result = [p \in Procs |-> None]
    /\ calls = [p \in Procs |-> 0]
    /\ pre = [p \in Procs |-> <<>>]
    /\ first = <<>>


SgIdle ==
    /\ sgPc = "idle"
    /\ sgKey = NoKey
    /\ sgSig = <<>>
    /\ sgBuf = <<>>
    /\ sgCopied = 0
    /\ sgResult = None
    /\ sgPre = <<>>

\* a reader that has not been called: no header field, no result, no value
NoSigner == [name |-> <<>>, rev |-> None]

NoHeader == [format |-> <<>>, signer |-> NoSigner, hash_type |-> <<>>, signature |-> <<>>]

NoArtifactHeader ==
    [format_version |-> <<>>, key_name |-> <<>>, hash_type |-> <<>>, signature_raw |-> <<>>]

NoValue == [signer |-> NoSigner, header |-> NoArtifactHeader, reader |-> 0, ident |-> <<>>]

RdIdle ==
    /\ rdPc = "idle"
    /\ rdOp = None
    /\ rdPos = 0
    /\ rdHeader = NoHeader
    /\ rdResult = None
    /\ rdValue = NoValue
    /\ rdLog = <<>>

\* no lookup made yet
LkIdle ==
    /\ lkOp = None
    /\ lkArg = <<>>
    /\ lkResult = None
    /\ lkValue = <<>>

\* nothing encrypted or decrypted yet
NoCiphertext == [mac |-> <<>>, body |-> <<>>]

CrIdle ==
    /\ crPc = "idle"
    /\ crKey = NoKey
    /\ crData = <<>>
    /\ crSealed = [err |-> None, nonce |-> None, ciphertext |-> NoCiphertext]
    /\ crGiven = [key |-> NoKey, nonce |-> None, ciphertext |-> NoCiphertext]
    /\ crOpened = [err |-> None, data |-> <<>>]

\* the optional fields of a service Update request (password: Windows only)
UpdateFields ==
    {"bind", "binding_mode", "bldr_url", "channel", "group", "password", "topology",
     "strategy", "health_check_interval", "shutdown_timeout", "update_condition"}

\* the optional fields of a SvcUpdate message
SvcUpdateFields ==
    {"binds", "binding_mode", "bldr_url", "bldr_channel", "group", "svc_encrypted_password",
     "topology", "update_strategy", "health_check_interval", "shutdown_timeout",
     "update_condition"}

\* Option<T>: None is the empty sequence, Some(v) the sequence of v alone
NoUpdate == [windows |-> FALSE, pkg_ident |-> <<>>, opt |-> [f \in UpdateFields |-> <<>>]]

\* SvcUpdate::default()
SvcUpdateDefault == [ident |-> <<>>, opt |-> [f \in SvcUpdateFields |-> <<>>]]

NoConversion == [err |-> None, msg |-> SvcUpdateDefault]

\* no key generated, no upload started, no Update converted yet
CliIdle ==
    /\ gnKey = [p \in Procs |-> NoKey]
    /\ upPc = "idle"
    /\ upSecret = FALSE
    /\ upTries = 0
    /\ upLog = <<>>
    /\ upResult = None
    /\ svIn = NoUpdate
    /\ svOut = NoConversion

Init ==
    /\ files = <<>>
    /\ faults = 0
    /\ KcIdle
    /\ SgIdle
    /\ pubCache = <<>>
    /\ RdIdle
    /\ LkIdle
    /\ CrIdle
    /\ CliIdle

\* calls made so far by all processes
TotalCalls == calls["p1"] + calls["p2"]

Finish(p, r) ==
    /\ pc' = [pc EXCEPT ![p] = "idle"]
    /\ result' = [result EXCEPT ![p] = r]

Goto(p, label) ==
    /\ pc' = [pc EXCEPT ![p] = label]
    /\ UNCHANGED result

\* ghost: the first complete content that appeared under each key filename
NoteFirst(fs, path) ==
    IF path \in DOMAIN first THEN first
    ELSE [q \in DOMAIN first \cup {path} |-> IF q = path THEN fs[path] ELSE first[q]]

\* ------------------------------------------- KeyCache::write_ring_key path
CallWriteRingKey(p, key) ==
    /\ pc[p] = "idle" /\ TotalCalls < MaxCalls /\ lkOp = None
    /\ calls' = [calls EXCEPT ![p] = @ + 1]
    /\ pre' = [pre EXCEPT ![p] = KeyFilesOnly(files)]
    /\ IF key.secret = None
       THEN /\ arg' = [arg EXCEPT ![p] = [op |-> "write_ring_key", key |-> key,
                           nwr |-> NameWithRev(key.name, key.rev), content |-> <<>>]]
            /\ Finish(p, "no_secret")
       ELSE /\ arg' = [arg EXCEPT ![p] = [op |-> "write_ring_key", key |-> key,
                           nwr |-> NameWithRev(key.name, key.rev),
                           content |-> ToSecretString(key)]]
            /\ pc' = [pc EXCEPT ![p] = "mwk_is_file"]
            /\ result' = [result EXCEPT ![p] = None]
    /\ UNCHANGED <<files, first, faults, sgVars, rdVars, lkVars, crVars, cliVars>>

\* KeyCache::path_in_cache: the cache directory joined with the key's file name
PathInCache_NameOnly(a) == KeyFilename(<<a.nwr[1]>>)

PathInCache(a) == KeyFilename(a.nwr)

\* `keyfile.is_file()`
MwkKeyfileExists_Never(fs, a) == FALSE

MwkKeyfileExists(fs, a) == IsFile(fs, PathInCache(a))

MwkIsFile(p) ==
    /\ pc[p] = "mwk_is_file"
    /\ IF MwkKeyfileExists(files, arg[p])
       THEN Goto(p, "mwk_hash")
       ELSE Goto(p, "mwk_tmp")
    /\ UNCHANGED <<files, arg, calls, pre, first, faults, sgVars, rdVars, lkVars, crVars, cliVars>>

\* `existing_hash != new_hash`
MwkHashesDiffer_Never(fs, a) == FALSE

MwkHashesDiffer_Always(fs, a) == TRUE

MwkHashesDiffer(fs, a) ==
    HashFile(fs, PathInCache(a)) # HashString(a.content)

MwkHash(p) ==
    /\ pc[p] = "mwk_hash"
    /\ IF MwkHashesDiffer(files, arg[p])
       THEN Finish(p, "conflict")
       ELSE Finish(p, "ok")
    /\ UNCHANGED <<files, arg, calls, pre, first, faults, sgVars, rdVars, lkVars, crVars, cliVars>>

MwkTmp(p) ==
    /\ pc[p] = "mwk_tmp"
    /\ files' = FsWrite(files, AtomicTmpPath(p), <<>>)
    /\ Goto(p, "mwk_write")
    /\ UNCHANGED <<arg, calls, pre, first, faults, sgVars, rdVars, lkVars, crVars, cliVars>>

MwkWritePart(p) ==
    /\ pc[p] = "mwk_write"
    /\ files[AtomicTmpPath(p)] = <<>>
    /\ files' = FsWrite(files, AtomicTmpPath(p), SubSeq(arg[p].content, 1, 2))
    /\ Goto(p, "mwk_write")
    /\ UNCHANGED <<arg, calls, pre, first, faults, sgVars, rdVars, lkVars, crVars, cliVars>>

MwkWriteAll(p) ==
    /\ pc[p] = "mwk_write"
    /\ files' = FsWrite(files, AtomicTmpPath(p), arg[p].content)
    /\ Goto(p, "mwk_persist")
    /\ UNCHANGED <<arg, calls, pre, first, faults, sgVars, rdVars, lkVars, crVars, cliVars>>

MwkPersist(p) ==
    /\ pc[p] = "mwk_persist"
    /\ files' = FsRename(files, AtomicTmpPath(p), PathInCache(arg[p]))
    /\ first' = NoteFirst(files', PathInCache(arg[p]))
    /\ Finish(p, "ok")
    /\ UNCHANGED <<arg, calls, pre, faults, sgVars, rdVars, lkVars, crVars, cliVars>>

\* --------------------------------------- RingKey::write_file_from_str path
\* a shape check that miscounts the lines
WfsShapeError_Miscounted(content) ==
    IF Len(content) = 0 THEN "malformed1"
    ELSE IF content[1] # SECRET_SYM_KEY_VERSION THEN "version"
    ELSE IF Len(content) < 2 THEN "malformed3"
    ELSE IF Len(content) < 4 THEN "malformed2"
    ELSE None

WfsShapeError(content) ==
    IF Len(content) = 0 THEN "malformed1"
    ELSE IF content[1] # SECRET_SYM_KEY_VERSION THEN "version"
    ELSE IF Len(content) < 2 THEN "malformed2"
    ELSE IF Len(content) < 4 THEN "malformed3"
    ELSE None

CallWriteFileFromStr(p, content) ==
    /\ pc[p] = "idle" /\ TotalCalls < MaxCalls /\ lkOp = None
    /\ calls' = [calls EXCEPT ![p] = @ + 1]
    /\ pre' = [pre EXCEPT ![p] = KeyFilesOnly(files)]
    /\ IF WfsShapeError(content) # None
       THEN /\ arg' = [arg EXCEPT ![p] = [op |-> "write_file_from_str", key |-> NoKey,
                           nwr |-> <<>>, content |-> content]]
            /\ Finish(p, WfsShapeError(content))
       ELSE /\ arg' = [arg EXCEPT ![p] = [op |-> "write_file_from_str", key |-> NoKey,
                           nwr |-> content[2], content |-> content]]
            /\ pc' = [pc EXCEPT ![p] = "wfs_create"]
            /\ result' = [result EXCEPT ![p] = None]
    /\ UNCHANGED <<files, first, faults, sgVars, rdVars, lkVars, crVars, cliVars>>

WfsCreate(p) ==
    /\ pc[p] = "wfs_create"
    /\ files' = FsWrite(files, WfsTmpPath(arg[p].nwr, p), <<>>)
    /\ Goto(p, "wfs_write")
    /\ UNCHANGED <<arg, calls, pre, first, faults, sgVars, rdVars, lkVars, crVars, cliVars>>

WfsWritePart(p) ==
    /\ pc[p] = "wfs_write"
    /\ files[WfsTmpPath(arg[p].nwr, p)] = <<>>
    /\ files' = FsWrite(files, WfsTmpPath(arg[p].nwr, p), SubSeq(arg[p].content, 1, 2))
    /\ Goto(p, "wfs_write")
    /\ UNCHANGED <<arg, calls, pre, first, faults, sgVars, rdVars, lkVars, crVars, cliVars>>

WfsWriteAll(p) ==
    /\ pc[p] = "wfs_write"
    /\ files' = FsWrite(files, WfsTmpPath(arg[p].nwr, p), arg[p].content)
    /\ Goto(p, "wfs_is_file")
    /\ UNCHANGED <<arg, calls, pre, first, faults, sgVars, rdVars, lkVars, crVars, cliVars>>

WfsIsFile(p) ==
    /\ pc[p] = "wfs_is_file"
    /\ IF IsFile(files, KeyFilename(arg[p].nwr))
       THEN Goto(p, "wfs_hash")
       ELSE Goto(p, "wfs_rename")
    /\ UNCHANGED <<files, arg, calls, pre, first, faults, sgVars, rdVars, lkVars, crVars, cliVars>>

\* `existing_hash != new_hash`, both read back from disk
WfsHashesDiffer_Always(fs, a, p) == TRUE

WfsHashesDiffer(fs, a, p) ==
    HashFile(fs, KeyFilename(a.nwr)) # HashFile(fs, WfsTmpPath(a.nwr, p))

WfsHash(p) ==
    /\ pc[p] = "wfs_hash"
    /\ IF WfsHashesDiffer(files, arg[p], p)
       THEN /\ files' = DropTmp(files, TmpGuardPath(arg[p].nwr, p))
            /\ Finish(p, "conflict")
       ELSE /\ Goto(p, "wfs_remove")
            /\ UNCHANGED files
    /\ UNCHANGED <<arg, calls, pre, first, faults, sgVars, rdVars, lkVars, crVars, cliVars>>

WfsRemove(p) ==
    /\ pc[p] = "wfs_remove"
    /\ files' = FsRemove(files, WfsTmpPath(arg[p].nwr, p))
    /\ Goto(p, "wfs_load")
    /\ UNCHANGED <<arg, calls, pre, first, faults, sgVars, rdVars, lkVars, crVars, cliVars>>

WfsRename(p) ==
    /\ pc[p] = "wfs_rename"
    /\ files' = FsRename(files, WfsTmpPath(arg[p].nwr, p), KeyFilename(arg[p].nwr))
    /\ first' = NoteFirst(files', KeyFilename(arg[p].nwr))
    /\ Goto(p, "wfs_load")
    /\ UNCHANGED <<arg, calls, pre, faults, sgVars, rdVars, lkVars, crVars, cliVars>>

\* HabitatKey::try_from(path): the 4-line key file with the expected banner
\* and a base64 payload
HabitatKeyParses(content) ==
    /\ Len(content) >= 4
    /\ content[1] = SECRET_SYM_KEY_VERSION
    /\ Len(content[4]) = 1
    /\ Base64Decodable(content[4][1])

\* RingKey::get_secret_key: Some(key) iff the payload is KEYBYTES long
GetSecretKeyOk(fs, nwr) ==
    /\ IsFile(fs, KeyFilename(nwr))
    /\ HabitatKeyParses(fs[KeyFilename(nwr)])
    /\ ByteLen(Base64Decode(fs[KeyFilename(nwr)][4][1])) = KEYBYTES

\* RingKey::get_pair_for
GetPairForOk(fs, nwr) == NameWithRevParses(nwr) /\ GetSecretKeyOk(fs, nwr)

WfsLoad(p) ==
    /\ pc[p] = "wfs_load"
    /\ files' = DropTmp(files, TmpGuardPath(arg[p].nwr, p))
    /\ IF GetPairForOk(files, arg[p].nwr)
       THEN Finish(p, "ok")
       ELSE Finish(p, "load")
    /\ UNCHANGED <<arg, calls, pre, first, faults, sgVars, rdVars, lkVars, crVars, cliVars>>

\* ------------------------------------------------------------- I/O errors
FsSteps == {"mwk_hash", "mwk_tmp", "mwk_write", "mwk_persist", "wfs_create",
            "wfs_write", "wfs_hash", "wfs_remove", "wfs_rename", "wfs_load"}

GuardPath(p) ==
    IF arg[p].op = "write_ring_key" THEN AtomicTmpPath(p)
    ELSE TmpGuardPath(arg[p].nwr, p)

\* the pending filesystem call fails; `?` returns the error and the guard
\* of the temporary file is dropped
IoError(p) ==
    /\ pc[p] \in FsSteps
    /\ faults < MaxFaults
    /\ faults' = faults + 1
    /\ files' = DropTmp(files, GuardPath(p))
    /\ Finish(p, "io")
    /\ UNCHANGED <<arg, calls, pre, first, sgVars, rdVars, lkVars, crVars, cliVars>>

Next ==
    \E p \in Procs :
        \/ \E key \in RingKeys : CallWriteRingKey(p, key)
        \/ \E content \in InputContents : CallWriteFileFromStr(p, content)
        \/ MwkIsFile(p)
        \/ MwkHash(p)
        \/ MwkTmp(p)
        \/ MwkWritePart(p)
        \/ MwkWriteAll(p)
        \/ MwkPersist(p)
        \/ WfsCreate(p)
        \/ WfsWritePart(p)
        \/ WfsWriteAll(p)
        \/ WfsIsFile(p)
        \/ WfsHash(p)
        \/ WfsRemove(p)
        \/ WfsRename(p)
        \/ WfsLoad(p)
        \/ IoError(p)

Spec == Init /\ [][Next]_vars

\* --------------------------------------------------- reading the key cache
CacheError ==
    [NoRevisions    |-> "No revisions found for sym key",
     NoSecretKeys   |-> "No secret keys found for name_with_rev",
     BadNameWithRev |-> "name_with_rev does not parse"]

\* parse_name_with_rev: the name before the last "-", the revision after it
ParseNameWithRev(s) == [name |-> SubSeq(s, 1, Len(s) - 2), rev |-> s[Len(s)]]

\* get_key_revisions(name, cache, None, KeyType::Sym): the identities of the
\* key files of `name`, most recent revision first
RECURSIVE RevisionsUpTo(_, _, _)
RevisionsUpTo(fs, name, i) ==
    IF i = 0 THEN <<>>
    ELSE (IF IsFile(fs, KeyFilename(NameWithRev(name, RevTable[i])))
          THEN <<NameWithRev(name, RevTable[i])>>
          ELSE <<>>) \o RevisionsUpTo(fs, name, i - 1)

GetKeyRevisions(fs, name) == RevisionsUpTo(fs, name, Len(RevTable))

\* KeyCache::get_pair_for / RingKey::get_pair_for: the key read from the file
\* of one identity
GetPairFor_FirstRevision(fs, nwr) ==
    LET id == NameWithRev(nwr[1], RevTable[1])
    IN  IF ~GetSecretKeyOk(fs, id)
        THEN [err |-> CacheError.NoSecretKeys, keys |-> <<>>]
        ELSE [err |-> None,
              keys |-> <<[name   |-> ParseNameWithRev(id).name,
                          rev    |-> ParseNameWithRev(id).rev,
                          secret |-> Base64Decode(fs[KeyFilename(id)][4][1])]>>]

\* a read that returns the identity without the secret it found
GetPairFor_SecretDropped(fs, nwr) ==
    IF ~NameWithRevParses(nwr)
    THEN [err |-> CacheError.BadNameWithRev, keys |-> <<>>]
    ELSE IF ~GetSecretKeyOk(fs, nwr)
    THEN [err |-> CacheError.NoSecretKeys, keys |-> <<>>]
    ELSE [err |-> None,
          keys |-> <<[name   |-> ParseNameWithRev(nwr).name,
                      rev    |-> ParseNameWithRev(nwr).rev,
                      secret |-> None]>>]

GetPairFor(fs, nwr) ==
    IF ~NameWithRevParses(nwr)
    THEN [err |-> CacheError.BadNameWithRev, keys |-> <<>>]
    ELSE IF ~GetSecretKeyOk(fs, nwr)
    THEN [err |-> CacheError.NoSecretKeys, keys |-> <<>>]
    ELSE [err |-> None,
          keys |-> <<[name   |-> ParseNameWithRev(nwr).name,
                      rev    |-> ParseNameWithRev(nwr).rev,
                      secret |-> Base64Decode(fs[KeyFilename(nwr)][4][1])]>>]

\* the loop of get_pairs_for: `get_pair_for(name_with_rev)?` for each revision
ReadPairs_FirstOnly(fs, revisions) ==
    IF revisions = <<>> THEN [err |-> None, keys |-> <<>>]
    ELSE GetPairFor(fs, Head(revisions))

RECURSIVE ReadPairs(_, _)
ReadPairs(fs, revisions) ==
    IF revisions = <<>> THEN [err |-> None, keys |-> <<>>]
    ELSE LET kp == GetPairFor(fs, Head(revisions))
             rest == ReadPairs(fs, Tail(revisions))
         IN  IF kp.err # None THEN kp
             ELSE IF rest.err # None THEN rest
             ELSE [err |-> None, keys |-> kp.keys \o rest.keys]

\* KeyCache::get_pairs_for / RingKey::get_pairs_for
GetPairsFor_EmptyFails(fs, name) ==
    IF GetKeyRevisions(fs, name) = <<>>
    THEN [err |-> CacheError.NoSecretKeys, keys |-> <<>>]
    ELSE ReadPairs(fs, GetKeyRevisions(fs, name))

GetPairsFor(fs, name) == ReadPairs(fs, GetKeyRevisions(fs, name))

\* KeyCache::latest_ring_key_revision / RingKey::get_latest_pair_for
LatestRingKeyRevision_Oldest(fs, name) ==
    LET all == GetPairsFor(fs, name)
    IN  IF all.err # None THEN all
        ELSE IF Len(all.keys) = 0
        THEN [err |-> CacheError.NoRevisions, keys |-> <<>>]
        ELSE [err |-> None, keys |-> <<all.keys[Len(all.keys)]>>]

LatestRingKeyRevision(fs, name) ==
    LET all == GetPairsFor(fs, name)
    IN  IF all.err # None THEN all
        ELSE IF Len(all.keys) = 0
        THEN [err |-> CacheError.NoRevisions, keys |-> <<>>]
        ELSE [err |-> None, keys |-> <<Head(all.keys)>>]

\* the identities a caller asks for: written or not, and one that is no
\* name-with-revision at all
LookupIds ==
    {NameWithRev(n, r) : n \in Names, r \in Revisions} \cup {<<"nope">>}

\* a lookup is made while no write is in progress
CacheQuiet == \A p \in Procs : pc[p] = "idle"

LookupReturns(op, a, r) ==
    /\ lkOp' = op
    /\ lkArg' = a
    /\ lkResult' = r.err
    /\ lkValue' = r.keys

CallLatestRingKeyRevision(name) ==
    /\ lkOp = None /\ CacheQuiet
    /\ LookupReturns("latest_ring_key_revision", <<name>>,
                     LatestRingKeyRevision(files, name))
    /\ UNCHANGED <<files, faults, kcVars, sgVars, rdVars, crVars, cliVars>>

CallGetPairsFor(name) ==
    /\ lkOp = None /\ CacheQuiet
    /\ LookupReturns("get_pairs_for", <<name>>, GetPairsFor(files, name))
    /\ UNCHANGED <<files, faults, kcVars, sgVars, rdVars, crVars, cliVars>>

CallGetPairFor(nwr) ==
    /\ lkOp = None /\ CacheQuiet
    /\ LookupReturns("get_pair_for", nwr, GetPairFor(files, nwr))
    /\ UNCHANGED <<files, faults, kcVars, sgVars, rdVars, crVars, cliVars>>

NextLookup ==
    \/ Next
    \/ \E name \in Names : CallLatestRingKeyRevision(name)
    \/ \E name \in Names : CallGetPairsFor(name)
    \/ \E nwr \in LookupIds : CallGetPairFor(nwr)

SpecLookup == Init /\ [][NextLookup]_vars

\* ------------------------------------------- RingKey::encrypt and decrypt
CryptError ==
    [NoSecret      |-> "Secret key is required but not present",
     NonceSize     |-> "Invalid size of nonce",
     Undecryptable |-> "Secret key and nonce could not decrypt ciphertext"]

\* secretbox::NONCEBYTES
NONCEBYTES == 24

\* the nonces secretbox::gen_nonce may draw
GenNonces == {"nonce1", "nonce2"}

\* length in bytes of a nonce argument
NonceLen(nonce) == IF nonce \in GenNonces THEN NONCEBYTES ELSE 11

Plaintexts == {<<>>, <<"Ringonit">>, <<"Not", "going">>}

\* secretbox::seal: each byte combined with the key stream of (key, nonce),
\* and an authenticator over key, nonce and message
Seal(data, nonce, key) ==
    [mac  |-> <<key, nonce>> \o data,
     body |-> [i \in 1..Len(data) |-> <<data[i], key, nonce>>]]

\* secretbox::open: Ok(message) iff the authenticator fits key, nonce and
\* the bytes the key stream gives back
Open(ciphertext, nonce, key) ==
    LET data == [i \in 1..Len(ciphertext.body) |-> ciphertext.body[i][1]]
    IN  IF /\ ciphertext.mac = <<key, nonce>> \o data
           /\ \A i \in 1..Len(ciphertext.body) :
                ciphertext.body[i][2] = key /\ ciphertext.body[i][3] = nonce
        THEN [ok |-> TRUE, msg |-> data]
        ELSE [ok |-> FALSE, msg |-> <<>>]

\* RingKey::encrypt; `nonce` is what gen_nonce drew
RingKeyEncrypt_OtherNonce(key, data, nonce) ==
    IF key.secret = None
    THEN [err |-> CryptError.NoSecret, nonce |-> None, ciphertext |-> NoCiphertext]
    ELSE [err |-> None, nonce |-> nonce,
          ciphertext |-> Seal(data, CHOOSE n \in GenNonces : n # nonce, key.secret)]

RingKeyEncrypt(key, data, nonce) ==
    IF key.secret = None
    THEN [err |-> CryptError.NoSecret, nonce |-> None, ciphertext |-> NoCiphertext]
    ELSE [err |-> None, nonce |-> nonce, ciphertext |-> Seal(data, nonce, key.secret)]

\* RingKey::decrypt
RingKeyDecrypt_NoSizeCheck(key, nonce, ciphertext) ==
    IF key.secret = None THEN [err |-> CryptError.NoSecret, data |-> <<>>]
    ELSE IF ~Open(ciphertext, nonce, key.secret).ok
    THEN [err |-> CryptError.Undecryptable, data |-> <<>>]
    ELSE [err |-> None, data |-> Open(ciphertext, nonce, key.secret).msg]

RingKeyDecrypt_NonceFirst(key, nonce, ciphertext) ==
    IF NonceLen(nonce) # NONCEBYTES THEN [err |-> CryptError.NonceSize, data |-> <<>>]
    ELSE IF key.secret = None THEN [err |-> CryptError.NoSecret, data |-> <<>>]
    ELSE IF ~Open(ciphertext, nonce, key.secret).ok
    THEN [err |-> CryptError.Undecryptable, data |-> <<>>]
    ELSE [err |-> None, data |-> Open(ciphertext, nonce, key.secret).msg]

RingKeyDecrypt(key, nonce, ciphertext) ==
    IF key.secret = None THEN [err |-> CryptError.NoSecret, data |-> <<>>]
    ELSE IF NonceLen(nonce) # NONCEBYTES THEN [err |-> CryptError.NonceSize, data |-> <<>>]
    ELSE IF ~Open(ciphertext, nonce, key.secret).ok
    THEN [err |-> CryptError.Undecryptable, data |-> <<>>]
    ELSE [err |-> None, data |-> Open(ciphertext, nonce, key.secret).msg]

\* the ciphertexts a caller hands to decrypt: what encrypt returned, that
\* with a byte added, and bytes that never were a box
GivenCiphertext(which) ==
    IF which = "returned" THEN crSealed.ciphertext
    ELSE IF which = "tampered"
    THEN [crSealed.ciphertext EXCEPT !.body = @ \o <<<<"x", "x", "x">>>>]
    ELSE [mac |-> <<"singleladies">>, body |-> <<>>]

Encrypt(key, data, nonce) ==
    /\ crPc = "idle"
    /\ crPc' = "encrypted"
    /\ crKey' = key
    /\ crData' = data
    /\ crSealed' = RingKeyEncrypt(key, data, nonce)
    /\ UNCHANGED <<crGiven, crOpened, files, faults, kcVars, sgVars, rdVars, lkVars, cliVars>>

Decrypt(key, nonce, which) ==
    /\ crPc \in {"idle", "encrypted"}
    /\ crPc' = "decrypted"
    /\ crGiven' = [key |-> key, nonce |-> nonce, ciphertext |-> GivenCiphertext(which)]
    /\ crOpened' = RingKeyDecrypt(key, nonce, GivenCiphertext(which))
    /\ UNCHANGED <<crKey, crData, crSealed, files, faults, kcVars, sgVars, rdVars, lkVars, cliVars>>

NextCrypt ==
    \/ \E key \in RingKeys, data \in Plaintexts, nonce \in GenNonces :
            Encrypt(key, data, nonce)
    \/ \E key \in RingKeys, nonce \in GenNonces \cup {"crazyinlove"},
          which \in {"returned", "tampered", "garbage"} :
            Decrypt(key, nonce, which)

SpecCrypt == Init /\ [][NextCrypt]_vars

\* ---------------------------------------------------------- artifact::sign
HART_FORMAT_VERSION == <<"HART-1">>
SIG_HASH_TYPE == <<"BLAKE2b">>

\* bounds of the sign runs: chunks in a source file, items a BufWriter holds
MaxChunks == 2
BufCapacity == 6

SrcPath == <<"src.in">>
DstPath == <<"src.signed">>
Chunks == {<<"hearty">>, <<"goodness">>}

SrcContents == UNION {[1..n -> Chunks] : n \in 0..MaxChunks}

OriginKeys ==
    {[name |-> "unicorn", rev |-> RevTable[1], secret |-> s] : s \in {"keyA", None}}

RECURSIVE Flatten(_)
Flatten(lines) ==
    IF lines = <<>> THEN <<>> ELSE Head(lines) \o Flatten(Tail(lines))

\* key.sign(src): the signature bytes, determined by the secret key and the
\* bytes of the source
KeySign(key, src) == <<key.secret>> \o Flatten(src)

\* base64 of signature bytes: the text of no bytes is empty, any other text
\* carries the alphabet marker in front of what it encodes
EncodeSignature(bytes) == IF bytes = <<>> THEN <<>> ELSE <<"b64">> \o bytes

SignatureDecodable(text) == text = <<>> \/ (Len(text) >= 2 /\ text[1] = "b64")

DecodeSignature(text) == IF text = <<>> THEN <<>> ELSE Tail(text)

\* base64::encode(key.sign(src))
SignatureLine(key, src) == EncodeSignature(KeySign(key, src))

\* the text `write!` formats: four lines and the blank delimiter line
HeaderLines(key, sig) ==
    <<HART_FORMAT_VERSION, NameWithRev(key.name, key.rev), SIG_HASH_TYPE, sig, <<>>>>

\* a signed package that an earlier run left at the destination
OldPackage ==
    HeaderLines([name |-> "unicorn", rev |-> RevTable[1]], EncodeSignature(<<"old">>))
    \o <<<<"old-payload">>>>

SignInitialFs ==
    LET withSrc == {FsWrite(<<>>, SrcPath, src) : src \in SrcContents} \cup {<<>>}
    IN  withSrc \cup {FsWrite(fs, DstPath, OldPackage) : fs \in withSrc}

InitSign ==
    /\ files \in SignInitialFs
    /\ faults = 0
    /\ KcIdle
    /\ SgIdle
    /\ pubCache = <<>>
    /\ RdIdle
    /\ LkIdle
    /\ CrIdle
    /\ CliIdle

SignReturns(r) ==
    /\ sgPc' = "returned"
    /\ sgResult' = r

\* dropping the BufWriter writes what it still buffers to the file
DropWriter(fs, buf) ==
    IF IsFile(fs, DstPath) THEN FsWrite(fs, DstPath, fs[DstPath] \o buf) ELSE fs

SignCall(key) ==
    /\ sgPc = "idle"
    /\ rdPc = "idle"
    /\ sgKey' = key
    /\ sgPre' = files
    /\ sgPc' = "sign"
    /\ UNCHANGED <<files, faults, sgSig, sgBuf, sgCopied, sgResult, kcVars, rdVars, lkVars, crVars, cliVars>>

\* a sign that opens the destination before it computes the signature
SignKeySign_CreatesFirst ==
    /\ sgPc = "sign"
    /\ files' = FsWrite(files, DstPath, <<>>)
    /\ IF sgKey.secret = None
       THEN SignReturns("no_secret") /\ UNCHANGED sgSig
       ELSE IF ~IsFile(files, SrcPath)
       THEN SignReturns("io") /\ UNCHANGED sgSig
       ELSE /\ sgSig' = SignatureLine(sgKey, files[SrcPath])
            /\ sgPc' = "create"
            /\ UNCHANGED sgResult
    /\ UNCHANGED <<faults, sgKey, sgBuf, sgCopied, sgPre, kcVars, rdVars, lkVars, crVars, cliVars>>

\* `key.sign(src)?`
SignKeySign ==
    /\ sgPc = "sign"
    /\ IF sgKey.secret = None
       THEN SignReturns("no_secret") /\ UNCHANGED sgSig
       ELSE IF ~IsFile(files, SrcPath)
       THEN SignReturns("io") /\ UNCHANGED sgSig
       ELSE /\ sgSig' = SignatureLine(sgKey, files[SrcPath])
            /\ sgPc' = "create"
            /\ UNCHANGED sgResult
    /\ UNCHANGED <<files, faults, sgKey, sgBuf, sgCopied, sgPre, kcVars, rdVars, lkVars, crVars, cliVars>>

\* `File::create(dst)?` creates the file or truncates the one that is there
SignCreate_Effect(fs) == FsWrite(fs, DstPath, <<>>)

SignCreate ==
    /\ sgPc = "create"
    /\ files' = SignCreate_Effect(files)
    /\ sgPc' = "header"
    /\ UNCHANGED <<faults, sgKey, sgSig, sgBuf, sgCopied, sgResult, sgPre, kcVars, rdVars, lkVars, crVars, cliVars>>

\* `write!(writer, ...)` into the BufWriter
SignWriteHeader ==
    /\ sgPc = "header"
    /\ sgBuf' = HeaderLines(sgKey, sgSig)
    /\ sgPc' = "open_src"
    /\ UNCHANGED <<files, faults, sgKey, sgSig, sgCopied, sgResult, sgPre, kcVars, rdVars, lkVars, crVars, cliVars>>

\* `File::open(src)?`
SignOpenSrc ==
    /\ sgPc = "open_src"
    /\ sgPc' = "copy"
    /\ UNCHANGED <<files, faults, sgKey, sgSig, sgBuf, sgCopied, sgResult, sgPre, kcVars, rdVars, lkVars, crVars, cliVars>>

\* one round of `io::copy`: the writer flushes first when the chunk does not fit
SignCopyChunk ==
    /\ sgPc = "copy"
    /\ sgCopied < Len(files[SrcPath])
    /\ sgCopied' = sgCopied + 1
    /\ IF Len(sgBuf) + 1 > BufCapacity
       THEN /\ files' = FsWrite(files, DstPath, files[DstPath] \o sgBuf)
            /\ sgBuf' = <<files[SrcPath][sgCopied + 1]>>
       ELSE /\ sgBuf' = Append(sgBuf, files[SrcPath][sgCopied + 1])
            /\ UNCHANGED files
    /\ UNCHANGED <<faults, sgPc, sgKey, sgSig, sgResult, sgPre, kcVars, rdVars, lkVars, crVars, cliVars>>

\* `Ok(())`, then the writer is dropped
SignReturn ==
    /\ sgPc = "copy"
    /\ sgCopied = Len(files[SrcPath])
    /\ files' = DropWriter(files, sgBuf)
    /\ sgBuf' = <<>>
    /\ SignReturns("ok")
    /\ UNCHANGED <<faults, sgKey, sgSig, sgCopied, sgPre, kcVars, rdVars, lkVars, crVars, cliVars>>

\* the flush in BufWriter's drop fails; drop has no way to report it
SignReturnFlushFails ==
    /\ sgPc = "copy"
    /\ sgCopied = Len(files[SrcPath])
    /\ sgBuf # <<>>
    /\ faults < MaxFaults
    /\ faults' = faults + 1
    /\ sgBuf' = <<>>
    /\ SignReturns("ok")
    /\ UNCHANGED <<files, sgKey, sgSig, sgCopied, sgPre, kcVars, rdVars, lkVars, crVars, cliVars>>

\* the pending call (read of src, create, open, read or write of a chunk)
\* fails; `?` returns the error and the writer, if there is one, is dropped
SignIoError ==
    /\ sgPc \in {"sign", "create", "open_src", "copy"}
    /\ faults < MaxFaults
    /\ faults' = faults + 1
    /\ files' = IF sgPc \in {"open_src", "copy"} THEN DropWriter(files, sgBuf) ELSE files
    /\ sgBuf' = <<>>
    /\ SignReturns("io")
    /\ UNCHANGED <<sgKey, sgSig, sgCopied, sgPre, kcVars, rdVars, lkVars, crVars, cliVars>>

NextSign ==
    \/ \E key \in OriginKeys : SignCall(key)
    \/ SignKeySign
    \/ SignCreate
    \/ SignWriteHeader
    \/ SignOpenSrc
    \/ SignCopyChunk
    \/ SignReturn
    \/ SignReturnFlushFails
    \/ SignIoError

SpecSign == InitSign /\ [][NextSign]_vars

\* ---------------------------------------------- reading a signed package
\* the operations that read the header of the package at DstPath
HartOps == {"verify", "artifact_signer", "get_artifact_header", "get_archive_reader"}

\* the errors of artifact.rs and of the calls it makes, by their messages
HartError ==
    [Io |-> "io",
     NoFormat |-> "Corrupt payload, can't read format version",
     BadFormat |-> "Unsupported format version",
     NoKeyName |-> "Corrupt payload, can't read origin key name",
     BadKeyName |-> "Cannot parse named revision",
     NoHashType |-> "Corrupt payload, can't read hash type",
     BadHashType |-> "Unsupported signature type",
     NoSignature |-> "Corrupt payload, can't read signature",
     BadSignature |-> "Can't decode signature",
     NoDelimiter |-> "Corrupt payload, can't find end of header",
     BadDelimiter |-> "Expected empty delimiter line in header",
     MissingKey |-> "Missing public signing key",
     KeyUnreadable |-> "public signing key cannot be read",
     VerificationFailed |-> "Verification failed",
     ArtifactInvalid |-> "Habitat artifact is invalid"]

\* str::trim: drop the whitespace at both ends of a line
Ws == " "

RECURSIVE TrimStart(_)
TrimStart(s) == IF s # <<>> /\ Head(s) = Ws THEN TrimStart(Tail(s)) ELSE s

RECURSIVE TrimEnd(_)
TrimEnd(s) ==
    IF s # <<>> /\ s[Len(s)] = Ws THEN TrimEnd(SubSeq(s, 1, Len(s) - 1)) ELSE s

Trim(s) == TrimEnd(TrimStart(s))

\* BufRead::read_line at line position pos: the count is 0 at end of stream
ReadLine(content, pos) ==
    IF pos < Len(content)
    THEN [n |-> Len(content[pos + 1]) + 1, line |-> content[pos + 1]]
    ELSE [n |-> 0, line |-> <<>>]

\* what is left of the stream after pos lines
RestOf(content, pos) == SubSeq(content, pos + 1, Len(content))

LineOk(v) == [err |-> None, val |-> v]

LineErr(e) == [err |-> e, val |-> <<>>]

\* "<name>-<revision>".parse::<NamedRevision>() and its Display
ParseNamedRevision(s) == [name |-> SubSeq(s, 1, Len(s) - 2), rev |-> s[Len(s)]]

NamedRevisionToString(nr) == nr.name \o <<"-", nr.rev>>

\* first line: the format version
ParseFormatLine_KeepsWhitespace(r) ==
    IF r.n = 0
    THEN LineErr(HartError.NoFormat)
    ELSE IF Trim(r.line) # HART_FORMAT_VERSION
         THEN LineErr(HartError.BadFormat)
         ELSE LineOk(r.line)

ParseFormatLine(r) ==
    IF r.n = 0
    THEN LineErr(HartError.NoFormat)
    ELSE LET line == Trim(r.line)
         IN  IF line # HART_FORMAT_VERSION THEN LineErr(HartError.BadFormat) ELSE LineOk(line)

\* second line: the named revision of the signing key
ParseSignerLine_EofAsEmpty(r) ==
    IF NameWithRevParses(Trim(r.line)) THEN LineOk(Trim(r.line)) ELSE LineErr(HartError.BadKeyName)

ParseSignerLine(r) ==
    IF r.n = 0
    THEN LineErr(HartError.NoKeyName)
    ELSE LET line == Trim(r.line)
         IN  IF NameWithRevParses(line) THEN LineOk(line) ELSE LineErr(HartError.BadKeyName)

\* third line: the hash type of the signature
ParseHashTypeLine_AnyType(r) ==
    IF r.n = 0 THEN LineErr(HartError.NoHashType) ELSE LineOk(Trim(r.line))

ParseHashTypeLine(r) ==
    IF r.n = 0
    THEN LineErr(HartError.NoHashType)
    ELSE LET line == Trim(r.line)
         IN  IF line # SIG_HASH_TYPE THEN LineErr(HartError.BadHashType) ELSE LineOk(line)

\* fourth line: the base64 signature, decoded
ParseSignatureLine_NoDecode(r) ==
    IF r.n = 0 THEN LineErr(HartError.NoSignature) ELSE LineOk(Trim(r.line))

ParseSignatureLine(r) ==
    IF r.n = 0
    THEN LineErr(HartError.NoSignature)
    ELSE LET line == Trim(r.line)
         IN  IF SignatureDecodable(line)
             THEN LineOk(DecodeSignature(line))
             ELSE LineErr(HartError.BadSignature)

\* fifth line: the empty delimiter
ParseDelimiterLine_EofOk(r) ==
    IF Trim(r.line) # <<>> THEN LineErr(HartError.BadDelimiter) ELSE LineOk(<<>>)

ParseDelimiterLine(r) ==
    IF r.n = 0
    THEN LineErr(HartError.NoDelimiter)
    ELSE LET line == Trim(r.line)
         IN  IF line # <<>> THEN LineErr(HartError.BadDelimiter) ELSE LineOk(<<>>)

\* where a caller of artifact_header_and_archive goes with the header it got
AfterHeader_AlwaysLookup(op) == "lookup"

AfterHeader(op) == IF op = "verify" THEN "lookup" ELSE "ready"

\* Into<ArtifactHeader> for ArtifactHeaderBetter
IntoArtifactHeader(h) ==
    [format_version |-> h.format,
     key_name |-> NamedRevisionToString(h.signer),
     hash_type |-> h.hash_type,
     signature_raw |-> EncodeSignature(h.signature)]

\* the public half of each signing key pair, and an entry that cannot be read
PublicOf == [keyA |-> "pubA", keyB |-> "pubB"]
Unreadable == "unreadable"

\* KeyCache::public_signing_key: None when the cache has no key of the signer
PublicSigningKey(cache, signer) ==
    LET id == NamedRevisionToString(signer)
    IN  IF id \in DOMAIN cache THEN cache[id] ELSE None

\* `.ok_or_else(|| "Missing public signing key")??` on what the cache found
LookupError_MissingIgnored(found) ==
    IF found = Unreadable THEN HartError.KeyUnreadable ELSE None

LookupError(found) ==
    IF found = None
    THEN HartError.MissingKey
    ELSE IF found = Unreadable THEN HartError.KeyUnreadable ELSE None

\* PublicOriginSigningKey::verify: the signature must be one the key's secret
\* half made, and made over the bytes the reader yields
KeyVerify(pub, signature, payload) ==
    IF signature = <<>>
    THEN HartError.VerificationFailed
    ELSE IF ~(Head(signature) \in DOMAIN PublicOf /\ PublicOf[Head(signature)] = pub)
    THEN HartError.VerificationFailed
    ELSE IF Tail(signature) # Flatten(payload)
    THEN HartError.ArtifactInvalid
    ELSE "ok"

\* ---- inputs: a genuine package and what tampering makes of it
SigningKey == [name |-> "unicorn", rev |-> RevTable[1], secret |-> "keyA"]

SignerId == NameWithRev(SigningKey.name, SigningKey.rev)

\* the file sign writes for a key and a source
Package(key, src) == HeaderLines(key, SignatureLine(key, src)) \o src

GenuineSrc == <<<<"hearty">>, <<"goodness">>>>

GenuinePackage == Package(SigningKey, GenuineSrc)

Padded(line) == <<Ws>> \o line \o <<Ws>>

\* the lines a tampered package carries in place of line i (6: the payload)
Variants(i) ==
    CASE i = 1 -> {<<"SOME-VERSION">>, <<"hart-1">>, <<>>, Padded(HART_FORMAT_VERSION)}
      [] i = 2 -> {<<"nope", "-", "nope">>, <<>>, Padded(SignerId),
                   NameWithRev(SigningKey.name, RevTable[2])}
      [] i = 3 -> {<<"BESTEST">>, <<"blake2b">>, <<>>, Padded(SIG_HASH_TYPE)}
      [] i = 4 -> {<<"not:base64:signature">>, <<>>,
                   Padded(SignatureLine(SigningKey, GenuineSrc)),
                   SignatureLine(SigningKey, <<<<"other">>>>)}
      [] i = 5 -> {<<"uhoh">>, <<Ws>>}
      [] i = 6 -> {<<"payload-wont-match-signature">>}

ReplaceLine(c, i, line) == [c EXCEPT ![i] = line]

TamperedPackages ==
    {GenuinePackage}
    \cup UNION {{ReplaceLine(GenuinePackage, i, line) : line \in Variants(i)} : i \in 1..6}

\* a tampered package, whole or cut short after any of its lines
HartFiles == UNION {{SubSeq(c, 1, n) : n \in 0..Len(c)} : c \in TamperedPackages}

\* the caches: empty, the signer's public key, another key under the signer's
\* identity, a key file that cannot be read
PubCaches ==
    {<<>>} \cup {[id \in {SignerId} |-> k] : k \in {"pubA", "pubB", Unreadable}}

InitHart ==
    /\ files \in SignInitialFs \cup {FsWrite(<<>>, DstPath, c) : c \in HartFiles}
    /\ faults = 0
    /\ KcIdle
    /\ SgIdle
    /\ pubCache \in PubCaches
    /\ RdIdle
    /\ LkIdle
    /\ CrIdle
    /\ CliIdle

\* ---- actions
HartReturns(r, v) ==
    /\ rdPc' = "returned"
    /\ rdResult' = r
    /\ rdValue' = v

\* a call of one of the operations, while no sign is under way
HartCall(op) ==
    /\ rdPc = "idle"
    /\ sgPc \in {"idle", "returned"}
    /\ rdOp' = op
    /\ rdPc' = "open"
    /\ UNCHANGED <<files, faults, pubCache, rdPos, rdHeader, rdResult, rdValue, rdLog,
                   kcVars, sgVars, lkVars, crVars, cliVars>>

\* `File::open(path)?`
HartOpen ==
    /\ rdPc = "open"
    /\ IF IsFile(files, DstPath)
       THEN rdPc' = "format" /\ UNCHANGED <<rdResult, rdValue>>
       ELSE HartReturns(HartError.Io, NoValue)
    /\ UNCHANGED <<files, faults, pubCache, rdOp, rdPos, rdHeader, rdLog, kcVars, sgVars, lkVars, crVars, cliVars>>

\* one header line: read it, check it, keep its value or return its error
HeaderLineStep(here, parsed, n, header, next) ==
    /\ rdLog' = Append(rdLog, here)
    /\ rdPos' = IF n = 0 THEN rdPos ELSE rdPos + 1
    /\ IF parsed.err # None
       THEN HartReturns(parsed.err, NoValue) /\ UNCHANGED rdHeader
       ELSE /\ rdHeader' = header
            /\ rdPc' = next
            /\ UNCHANGED <<rdResult, rdValue>>
    /\ UNCHANGED <<files, faults, pubCache, rdOp, kcVars, sgVars, lkVars, crVars, cliVars>>

ReadFormatLine ==
    /\ rdPc = "format"
    /\ LET r == ReadLine(files[DstPath], rdPos)
           format == ParseFormatLine(r)
       IN  HeaderLineStep("format", format, r.n,
                          [rdHeader EXCEPT !.format = format.val], "signer")

ReadSignerLine ==
    /\ rdPc = "signer"
    /\ LET r == ReadLine(files[DstPath], rdPos)
           named_revision == ParseSignerLine(r)
       IN  HeaderLineStep("signer", named_revision, r.n,
                          [rdHeader EXCEPT !.signer = ParseNamedRevision(named_revision.val)],
                          "hash_type")

ReadHashTypeLine ==
    /\ rdPc = "hash_type"
    /\ LET r == ReadLine(files[DstPath], rdPos)
           hash_type == ParseHashTypeLine(r)
       IN  HeaderLineStep("hash_type", hash_type, r.n,
                          [rdHeader EXCEPT !.hash_type = hash_type.val], "signature")

ReadSignatureLine ==
    /\ rdPc = "signature"
    /\ LET r == ReadLine(files[DstPath], rdPos)
           signature == ParseSignatureLine(r)
       IN  HeaderLineStep("signature", signature, r.n,
                          [rdHeader EXCEPT !.signature = signature.val], "delimiter")

ReadDelimiterLine ==
    /\ rdPc = "delimiter"
    /\ LET r == ReadLine(files[DstPath], rdPos)
           delimiter == ParseDelimiterLine(r)
       IN  HeaderLineStep("delimiter", delimiter, r.n, rdHeader, AfterHeader(rdOp))

\* artifact_signer: `Ok(header.signer)`
ArtifactSignerReturn ==
    /\ rdPc = "ready"
    /\ rdOp = "artifact_signer"
    /\ HartReturns("ok", [NoValue EXCEPT !.signer = rdHeader.signer])
    /\ UNCHANGED <<files, faults, pubCache, rdOp, rdPos, rdHeader, rdLog, kcVars, sgVars, lkVars, crVars, cliVars>>

\* get_artifact_header: `Ok(artifact.into())`
GetArtifactHeaderReturn ==
    /\ rdPc = "ready"
    /\ rdOp = "get_artifact_header"
    /\ HartReturns("ok", [NoValue EXCEPT !.header = IntoArtifactHeader(rdHeader)])
    /\ UNCHANGED <<files, faults, pubCache, rdOp, rdPos, rdHeader, rdLog, kcVars, sgVars, lkVars, crVars, cliVars>>

\* get_archive_reader: `Ok(reader)`, the reader where the header left it
GetArchiveReaderReturn ==
    /\ rdPc = "ready"
    /\ rdOp = "get_archive_reader"
    /\ HartReturns("ok", [NoValue EXCEPT !.reader = rdPos])
    /\ UNCHANGED <<files, faults, pubCache, rdOp, rdPos, rdHeader, rdLog, kcVars, sgVars, lkVars, crVars, cliVars>>

\* verify: look the signer's public key up in the cache
VerifyLookup ==
    /\ rdPc = "lookup"
    /\ rdLog' = Append(rdLog, "lookup")
    /\ LET err == LookupError(PublicSigningKey(pubCache, rdHeader.signer))
       IN  IF err # None
           THEN HartReturns(err, NoValue)
           ELSE rdPc' = "verify" /\ UNCHANGED <<rdResult, rdValue>>
    /\ UNCHANGED <<files, faults, pubCache, rdOp, rdPos, rdHeader, kcVars, sgVars, lkVars, crVars, cliVars>>

\* a verify that takes the header's word for it
VerifyKey_TrustsHeader ==
    /\ rdPc = "verify"
    /\ rdLog' = Append(rdLog, "verify")
    /\ HartReturns("ok", [NoValue EXCEPT
                           !.ident = <<rdHeader.signer.name, rdHeader.signer.rev>>])
    /\ UNCHANGED <<files, faults, pubCache, rdOp, rdPos, rdHeader, kcVars, sgVars, lkVars, crVars, cliVars>>

\* verify: `key.verify(signature, &mut reader)` reads the payload to its end
VerifyKey ==
    /\ rdPc = "verify"
    /\ rdLog' = Append(rdLog, "verify")
    /\ rdPos' = Len(files[DstPath])
    /\ LET r == KeyVerify(PublicSigningKey(pubCache, rdHeader.signer),
                          rdHeader.signature, RestOf(files[DstPath], rdPos))
       IN  IF r = "ok"
           THEN HartReturns("ok", [NoValue EXCEPT
                                     !.ident = <<rdHeader.signer.name, rdHeader.signer.rev>>])
           ELSE HartReturns(r, NoValue)
    /\ UNCHANGED <<files, faults, pubCache, rdOp, rdHeader, kcVars, sgVars, lkVars, crVars, cliVars>>

\* the pending open or read fails; `?` returns the error
HartIoError ==
    /\ rdPc \in {"open", "format", "signer", "hash_type", "signature", "delimiter", "verify"}
    /\ faults < MaxFaults
    /\ faults' = faults + 1
    /\ HartReturns(HartError.Io, NoValue)
    /\ UNCHANGED <<files, pubCache, rdOp, rdPos, rdHeader, rdLog, kcVars, sgVars, lkVars, crVars, cliVars>>

NextHart ==
    \/ \E key \in OriginKeys : SignCall(key)
    \/ SignKeySign
    \/ SignCreate
    \/ SignWriteHeader
    \/ SignOpenSrc
    \/ SignCopyChunk
    \/ SignReturn
    \/ SignReturnFlushFails
    \/ SignIoError
    \/ \E op \in HartOps : HartCall(op)
    \/ HartOpen
    \/ ReadFormatLine
    \/ ReadSignerLine
    \/ ReadHashTypeLine
    \/ ReadSignatureLine
    \/ ReadDelimiterLine
    \/ ArtifactSignerReturn
    \/ GetArtifactHeaderReturn
    \/ GetArchiveReaderReturn
    \/ VerifyLookup
    \/ VerifyKey
    \/ HartIoError

SpecHart == InitHart /\ [][NextHart]_vars

\* ------------------------------------------------------ claim vocabulary
\* every call made so far was made by p
Sequential(p) == \A q \in Procs \ {p} : calls[q] = 0

\* p's latest call has returned
Returned(p) == pc[p] = "idle" /\ calls[p] > 0

\* p's latest call got past its argument checks and had content to write
HadContent(p) == arg[p].nwr # <<>> /\ arg[p].content # <<>>

Keyfile(p) == KeyFilename(arg[p].nwr)

\* when p's latest call started, its key file held other content
ExistedDifferent(p) ==
    /\ Keyfile(p) \in DOMAIN pre[p]
    /\ pre[p][Keyfile(p)] # arg[p].content

ExistedIdentical(p) ==
    /\ Keyfile(p) \in DOMAIN pre[p]
    /\ pre[p][Keyfile(p)] = arg[p].content

\* temporary files that carry p's random suffix
TmpFilesOf(fs, p) == {f \in DOMAIN fs : f[Len(f)] = RandomHex(p)}

\* files of the cache whose name starts with the identity nwr
FilesOfIdentity(fs, nwr) ==
    {f \in DOMAIN fs : Len(f) >= Len(nwr) /\ SubSeq(f, 1, Len(nwr)) = nwr}

\* ------------------------------------------------------------------ C1
\* C1: a write (write_ring_key or write_file_from_str) under a filename that
\* already holds different content returns the conflict error (or the I/O
\* error of a failed filesystem call), never success, and the cache's key
\* files are byte for byte what they were before the call.
C1_ConflictingWriteRejected ==
    \A p \in Procs :
        (Sequential(p) /\ Returned(p) /\ HadContent(p) /\ ExistedDifferent(p))
        => /\ result[p] \in {"conflict", "io"}
           /\ (faults = 0 => result[p] = "conflict")
           /\ KeyFilesOnly(files) = pre[p]

C1_Witness ==
    \E p \in Procs :
        /\ Sequential(p) /\ Returned(p) /\ HadContent(p) /\ ExistedDifferent(p)
        /\ arg[p].op = "write_file_from_str"
        /\ result[p] = "conflict"

\* ------------------------------------------------------------------ C2
\* C2: with no filesystem failure, writing valid content under a new identity
\* succeeds and creates the file; writing it again succeeds and changes
\* nothing: one file for the identity, holding that content, no other file.
C2_IdempotentWrite ==
    \A p \in Procs :
        (Sequential(p) /\ Returned(p) /\ faults = 0
            /\ arg[p].content \in ValidContents)
        => /\ Keyfile(p) \notin DOMAIN pre[p]
                => /\ result[p] = "ok"
                   /\ files = FsWrite(pre[p], Keyfile(p), arg[p].content)
           /\ ExistedIdentical(p)
                => /\ result[p] = "ok"
                   /\ files = pre[p]
                   /\ FilesOfIdentity(files, arg[p].nwr) = {Keyfile(p)}

C2_Witness ==
    \E p \in Procs :
        /\ Sequential(p) /\ Returned(p) /\ faults = 0 /\ calls[p] = 2
        /\ arg[p].content \in ValidContents
        /\ ExistedIdentical(p)
        /\ result[p] = "ok"

\* ------------------------------------------------------------------ C3
\* C3: while one process does all the writing, every key file holds the
\* content first written under its filename.
C3_FirstContentKept ==
    (\E p \in Procs : Sequential(p))
    => /\ KeyFiles(files) = DOMAIN first
       /\ \A f \in KeyFiles(files) : files[f] = first[f]

C3_Witness ==
    \E p \in Procs :
        /\ Sequential(p) /\ Returned(p) /\ calls[p] = 2
        /\ arg[p].op = "write_ring_key"
        /\ ExistedDifferent(p)
        /\ files[Keyfile(p)] = first[Keyfile(p)]

\* ------------------------------------------------------------------ C4
\* C4 (as claimed): two processes each write once, different valid content
\* under one identity whose file was absent when each started; exactly one
\* write takes effect, the other gets the conflict error, and the file keeps
\* the content of the first rename.
C4_FirstRenameWins ==
    \A p, q \in Procs :
        (p # q /\ Returned(p) /\ Returned(q) /\ faults = 0
            /\ calls[p] = 1 /\ calls[q] = 1
            /\ arg[p].content \in ValidContents /\ arg[q].content \in ValidContents
            /\ arg[p].nwr = arg[q].nwr /\ arg[p].content # arg[q].content
            /\ pre[p] = <<>> /\ pre[q] = <<>>)
        => /\ {result[p], result[q]} = {"ok", "conflict"}
           /\ files[Keyfile(p)] = first[Keyfile(p)]

\* ------------------------------------------------------------------ C5
\* C5: two processes each write once, the same valid content under the same
\* identity, with no filesystem failure: both return success and the cache
\* holds exactly one file for the identity, with that content.
C5_ConcurrentIdenticalWrites ==
    \A p, q \in Procs :
        (p # q /\ Returned(p) /\ Returned(q) /\ faults = 0
            /\ calls[p] = 1 /\ calls[q] = 1
            /\ arg[p].content \in ValidContents
            /\ arg[p].content = arg[q].content)
        => /\ result[p] = "ok" /\ result[q] = "ok"
           /\ FilesOfIdentity(files, arg[p].nwr) = {Keyfile(p)}
           /\ files[Keyfile(p)] = arg[p].content

C5_Witness ==
    \E p, q \in Procs :
        /\ p # q /\ Returned(p) /\ Returned(q) /\ faults = 0
        /\ arg[p].op = "write_ring_key" /\ arg[q].op = "write_ring_key"
        /\ arg[p].content \in ValidContents
        /\ arg[p].content = arg[q].content
        /\ pre[p] = <<>> /\ pre[q] = <<>>
        /\ result[p] = "ok" /\ result[q] = "ok"

\* ------------------------------------------------------------------ C6
\* C6: two processes each write once, valid content under distinct
\* identities, with no filesystem failure: both return success and both
\* files are present, each with its own content.
C6_DistinctIdentitiesIndependent ==
    \A p, q \in Procs :
        (p # q /\ Returned(p) /\ Returned(q) /\ faults = 0
            /\ calls[p] = 1 /\ calls[q] = 1
            /\ arg[p].content \in ValidContents /\ arg[q].content \in ValidContents
            /\ arg[p].nwr # arg[q].nwr)
        => /\ result[p] = "ok" /\ result[q] = "ok"
           /\ Keyfile(p) \in DOMAIN files /\ files[Keyfile(p)] = arg[p].content
           /\ Keyfile(q) \in DOMAIN files /\ files[Keyfile(q)] = arg[q].content
           /\ KeyFiles(files) = {Keyfile(p), Keyfile(q)}

C6_Witness ==
    \E p, q \in Procs :
        /\ p # q /\ Returned(p) /\ Returned(q) /\ faults = 0
        /\ arg[p].op = "write_ring_key" /\ arg[q].op = "write_file_from_str"
        /\ arg[p].content \in ValidContents /\ arg[q].content \in ValidContents
        /\ arg[p].nwr # arg[q].nwr
        /\ pre[p] = <<>> /\ pre[q] = <<>>
        /\ result[p] = "ok" /\ result[q] = "ok"

\* ------------------------------------------------------------------ C7
\* C7: a key filename of the cache is either absent or holds one complete
\* content that a caller handed to a write; partial content is only ever in
\* a temporary file.
CompleteContents == {c \in InputContents : WfsShapeError(c) = None}

C8_NoTmpAfterReturn ==
    \A p \in Procs : pc[p] = "idle" => TmpFilesOf(files, p) = {}

C8_Witness ==
    \E p \in Procs :
        /\ Returned(p) /\ arg[p].op = "write_file_from_str"
        /\ result[p] = "io"
        /\ TmpFilesOf(files, p) = {}

\* ------------------------------------------------------------------ C9
\* C9 (as claimed): a write that returns an error leaves the cache's key
\* files and their contents as they were before the call.
C9_FailedWriteLeavesCacheUnchanged ==
    \A p \in Procs :
        (Sequential(p) /\ Returned(p) /\ faults = 0 /\ result[p] # "ok")
        => KeyFilesOnly(files) = pre[p]

\* ------------------------------------------------------------------ C10
\* C10 (as claimed): when sign returns an error, the destination path holds
\* no partially written package: it is absent, or still the file it was.
C10_FailedSignLeavesNoPartialPackage ==
    (sgPc = "returned" /\ sgResult # "ok")
    => \/ ~IsFile(files, DstPath)
       \/ IsFile(sgPre, DstPath) /\ files[DstPath] = sgPre[DstPath]

\* ------------------------------------- claim vocabulary: package reads
\* the read has returned
HartReturned == rdPc = "returned"

\* the read has returned something other than the error of a failed open or read
HartAnswered == rdPc = "returned" /\ rdResult # HartError.Io

\* the package file the read was given
HartFile == files[DstPath]

InLog(e) == \E i \in 1..Len(rdLog) : rdLog[i] = e

HeaderLineNames == <<"format", "signer", "hash_type", "signature", "delimiter">>

\* what each header line has to be, surrounding whitespace aside
LineValid(i, line) ==
    CASE i = 1 -> Trim(line) = HART_FORMAT_VERSION
      [] i = 2 -> NameWithRevParses(Trim(line))
      [] i = 3 -> Trim(line) = SIG_HASH_TYPE
      [] i = 4 -> SignatureDecodable(Trim(line))
      [] i = 5 -> Trim(line) = <<>>

LineFault(c, i) ==
    IF Len(c) < i THEN "missing" ELSE IF LineValid(i, c[i]) THEN None ELSE "invalid"

BadLines(c) == {i \in 1..5 : LineFault(c, i) # None}

\* the first header line that is missing or invalid; 0 when there is none
FirstBad(c) ==
    IF BadLines(c) = {} THEN 0 ELSE CHOOSE i \in BadLines(c) : \A j \in BadLines(c) : i <= j

ErrorOfLine ==
    [missing |-> <<HartError.NoFormat, HartError.NoKeyName, HartError.NoHashType, HartError.NoSignature, HartError.NoDelimiter>>,
     invalid |-> <<HartError.BadFormat, HartError.BadKeyName, HartError.BadHashType, HartError.BadSignature, HartError.BadDelimiter>>]

\* the error of the first bad line of a file that has one
ExpectedHeaderError(c) == ErrorOfLine[LineFault(c, FirstBad(c))][FirstBad(c)]

\* the format, parse and decode errors of the first four header lines
FirstFourErrors ==
    {ErrorOfLine[k][i] : k \in {"missing", "invalid"}, i \in 1..4}

FirstFour(c) == SubSeq(c, 1, IF Len(c) < 4 THEN Len(c) ELSE 4)

\* the files sign writes for the signing key
SignedPackages == {Package(SigningKey, src) : src \in SrcContents \cup {GenuineSrc}}

\* c is a signed package with its header cut short within the first four
\* lines, or with bytes of those lines changed
HeaderCorrupted(c) ==
    \E g \in SignedPackages :
        \/ Len(c) < 4 /\ c = SubSeq(g, 1, Len(c))
        \/ Len(c) = Len(g) /\ RestOf(c, 4) = RestOf(g, 4) /\ FirstFour(c) # FirstFour(g)

\* ------------------------------------------------------------------ C11
\* C11: the header read reads the five header lines in order (format,
\* signer, hash type, signature, delimiter); at the first line that is
\* missing or invalid it fails with the error of that line and that cause,
\* having read no later line.
C11_HeaderLinesReadInOrder ==
    /\ \E n \in 0..7 : rdLog = SubSeq(HeaderLineNames \o <<"lookup", "verify">>, 1, n)
    /\ (HartAnswered /\ FirstBad(HartFile) # 0)
        => LET b == FirstBad(HartFile)
           IN  /\ rdResult = ExpectedHeaderError(HartFile)
               /\ rdLog = SubSeq(HeaderLineNames, 1, b)
               /\ rdPos = IF LineFault(HartFile, b) = "missing" THEN b - 1 ELSE b
    /\ (HartAnswered /\ FirstBad(HartFile) = 0)
        => SubSeq(rdLog, 1, 5) = HeaderLineNames

C11_Witness ==
    /\ HartAnswered
    /\ Len(HartFile) = 2
    /\ FirstBad(HartFile) = 3
    /\ rdResult = HartError.NoHashType
    /\ rdLog = <<"format", "signer", "hash_type">>

\* ------------------------------------------------------------------ C12
\* C12 (as claimed): for a signed package in which one of the first four
\* header lines is cut off or changed, verify returns a format, parse or
\* decode error of the header and neither looks the signer's key up nor runs
\* signature verification.
C12_CorruptedHeaderNeverVerified ==
    (rdOp = "verify" /\ HartAnswered /\ HeaderCorrupted(HartFile))
    => /\ rdResult \in FirstFourErrors
       /\ ~InLog("lookup")
       /\ ~InLog("verify")

\* C12 (amended): for a file in which one of the first four header lines is
\* missing or fails its check (format version, named revision, hash type,
\* base64), verify returns the error of that line and neither looks the
\* signer's key up nor runs signature verification, whatever the cache holds.
C12_InvalidHeaderNeverVerified ==
    (rdOp = "verify" /\ HartAnswered /\ FirstBad(HartFile) \in 1..4)
    => /\ rdResult \in FirstFourErrors
       /\ rdResult = ExpectedHeaderError(HartFile)
       /\ ~InLog("lookup")
       /\ ~InLog("verify")

C12_Witness ==
    /\ rdOp = "verify"
    /\ HartAnswered
    /\ FirstBad(HartFile) = 4
    /\ rdResult = HartError.BadSignature
    /\ SignerId \in DOMAIN pubCache
    /\ pubCache[SignerId] = "pubA"

\* ------------------------------------------------------------------ C13
\* C13: a format-version line that is not HART-1, or a hash-type line that
\* is not BLAKE2b, makes the header read fail (with 'Unsupported format
\* version' / 'Unsupported signature type' when it is the first bad line);
\* a header is accepted only with exactly these two values.
C13_OnlyFixedLiteralsAccepted ==
    /\ rdHeader.format \in {<<>>, HART_FORMAT_VERSION}
    /\ rdHeader.hash_type \in {<<>>, SIG_HASH_TYPE}
    /\ HartAnswered
        => /\ (Len(HartFile) >= 1 /\ Trim(HartFile[1]) # HART_FORMAT_VERSION)
                => rdResult = HartError.BadFormat
           /\ (Len(HartFile) >= 3 /\ Trim(HartFile[3]) # SIG_HASH_TYPE)
                => /\ rdResult \in FirstFourErrors
                   /\ FirstBad(HartFile) = 3 => rdResult = HartError.BadHashType
           /\ InLog("delimiter")
                => /\ rdHeader.format = HART_FORMAT_VERSION
                   /\ rdHeader.hash_type = SIG_HASH_TYPE
                   /\ Trim(HartFile[1]) = HART_FORMAT_VERSION
                   /\ Trim(HartFile[3]) = SIG_HASH_TYPE

C13_Witness ==
    /\ HartAnswered
    /\ Len(HartFile) >= 5
    /\ HartFile[3] = <<"blake2b">>
    /\ rdResult = HartError.BadHashType
    /\ rdHeader.format = HART_FORMAT_VERSION

\* ------------------------------------------------------------------ C14
\* C14 (as claimed): artifact_signer reads the format line and the signer
\* line only: for a file whose first two lines are a valid format version
\* and a valid named revision it returns that signer, whatever follows.
C14_SignerNeedsTwoLinesOnly ==
    (rdOp = "artifact_signer" /\ HartAnswered
        /\ LineFault(HartFile, 1) = None /\ LineFault(HartFile, 2) = None)
    => /\ rdResult = "ok"
       /\ rdValue.signer = ParseNamedRevision(Trim(HartFile[2]))
       /\ rdLog = <<"format", "signer">>

\* ------------------------------------------------------------------ C15
\* C15: what artifact_signer returns is a function of the file alone: it
\* never consults the key cache, and for a well-formed header it returns the
\* signer of the second line whether or not the cache holds that signer's key.
C15_SignerIndependentOfCache ==
    rdOp = "artifact_signer"
    => /\ ~InLog("lookup")
       /\ HartAnswered
            => IF FirstBad(HartFile) = 0
               THEN /\ rdResult = "ok"
                    /\ rdValue.signer = ParseNamedRevision(Trim(HartFile[2]))
               ELSE rdResult = ExpectedHeaderError(HartFile)

C15_Witness ==
    /\ rdOp = "artifact_signer"
    /\ HartAnswered
    /\ pubCache = <<>>
    /\ FirstBad(HartFile) = 0
    /\ rdResult = "ok"
    /\ NamedRevisionToString(rdValue.signer) = SignerId

\* ------------------------------------------------------------------ C16
\* C16: when the header parses and the cache has no public signing key of
\* the header's signer, verify fails with 'Missing public signing key' and
\* no signature verification runs: the payload is not read.
C16_MissingPublicKey ==
    (rdOp = "verify" /\ HartAnswered /\ FirstBad(HartFile) = 0
        /\ Trim(HartFile[2]) \notin DOMAIN pubCache)
    => /\ rdResult = HartError.MissingKey
       /\ ~InLog("verify")
       /\ rdPos = 5

C16_Witness ==
    /\ rdOp = "verify"
    /\ HartAnswered
    /\ FirstBad(HartFile) = 0
    /\ Len(HartFile) > 5
    /\ pubCache # <<>>
    /\ Trim(HartFile[2]) \notin DOMAIN pubCache
    /\ rdResult = HartError.MissingKey

\* ------------------------------------------------------------------ C17
\* C17: with no failing read, verify of a file that holds a valid format
\* version line and nothing else fails with 'Corrupt payload, can't read
\* origin key name': not with an I/O error, not with the named-revision
\* parse error.
C17_FirstLineOnly ==
    (rdOp = "verify" /\ HartReturned /\ faults = 0 /\ IsFile(files, DstPath)
        /\ Len(HartFile) = 1 /\ LineFault(HartFile, 1) = None)
    => rdResult = HartError.NoKeyName

C17_Witness ==
    /\ rdOp = "verify"
    /\ HartReturned
    /\ faults = 0
    /\ IsFile(files, DstPath)
    /\ HartFile = <<HART_FORMAT_VERSION>>
    /\ rdResult = HartError.NoKeyName
    /\ rdLog = <<"format", "signer">>

\* ------------------------------------------------------------------ C18
\* C18 (as claimed): after sign returns Ok the destination holds the five
\* header lines followed by the bytes of the source, and the reader that
\* get_archive_reader returns on it yields exactly the bytes of the source.
C18_SignedPackageLayout ==
    (sgPc = "returned" /\ sgResult = "ok")
    => /\ files[DstPath] = Package(sgKey, files[SrcPath])
       /\ (rdOp = "get_archive_reader" /\ HartAnswered)
            => /\ rdResult = "ok"
               /\ RestOf(HartFile, rdValue.reader) = files[SrcPath]

\* ------------------------------------------------------------------ C19
\* C19 (as claimed): on a file that sign returned Ok for,
\* get_artifact_header succeeds with the format version, the signing key's
\* name-with-revision, the hash type and a non-empty signature, and leaves
\* the payload unread.
C19_HeaderOfSignedPackage ==
    (sgPc = "returned" /\ sgResult = "ok" /\ rdOp = "get_artifact_header" /\ HartAnswered)
    => /\ rdResult = "ok"
       /\ rdValue.header.format_version = HART_FORMAT_VERSION
       /\ rdValue.header.key_name = NameWithRev(sgKey.name, sgKey.rev)
       /\ rdValue.header.hash_type = SIG_HASH_TYPE
       /\ rdValue.header.signature_raw # <<>>
       /\ rdValue.header.signature_raw = sgSig
       /\ rdPos = 5

\* ------------------------------------------------------------------ C20
\* C20 (as claimed): verify of a file that sign returned Ok for, with the
\* public half of the signing key in the cache, succeeds and returns the
\* name and the revision of the signing key.
C20_SignVerifyRoundTrip ==
    (sgPc = "returned" /\ sgResult = "ok" /\ rdOp = "verify" /\ HartAnswered
        /\ NameWithRev(sgKey.name, sgKey.rev) \in DOMAIN pubCache
        /\ pubCache[NameWithRev(sgKey.name, sgKey.rev)] = PublicOf[sgKey.secret])
    => /\ rdResult = "ok"
       /\ rdValue.ident = <<<<sgKey.name>>, sgKey.rev>>

\* ------------------------------------------------------------------ C21
\* c is a signed package with its five header lines intact and its payload
\* changed or cut short
PayloadTampered(c) ==
    \E g \in SignedPackages :
        /\ Len(c) >= 5
        /\ SubSeq(c, 1, 5) = SubSeq(g, 1, 5)
        /\ RestOf(c, 5) # RestOf(g, 5)

\* C21: verify of a signed package whose payload was changed after signing,
\* header lines intact, never returns a signer identity; with the signer's
\* public key in the cache it fails with 'Habitat artifact is invalid'.
C21_TamperedPayloadRejected ==
    (rdOp = "verify" /\ HartAnswered /\ PayloadTampered(HartFile))
    => /\ rdResult # "ok"
       /\ rdValue.ident = <<>>
       /\ (SignerId \in DOMAIN pubCache /\ pubCache[SignerId] = PublicOf[SigningKey.secret])
            => /\ rdResult = HartError.ArtifactInvalid
               /\ InLog("verify")

C21_Witness ==
    /\ rdOp = "verify"
    /\ HartAnswered
    /\ PayloadTampered(HartFile)
    /\ Len(HartFile) >= 6
    /\ HartFile[6] = <<"payload-wont-match-signature">>
    /\ SignerId \in DOMAIN pubCache
    /\ pubCache[SignerId] = "pubA"
    /\ rdResult = HartError.ArtifactInvalid

\* ------------------------------------------- vocabulary of the lookup claims
\* position of a revision in time order
RevIndex(rev) == CHOOSE i \in 1..Len(RevTable) : RevTable[i] = rev

\* the revisions of `name` that have a key file
RevisionsOf(name) ==
    {r \in RevisionTokens : IsFile(files, KeyFilename(NameWithRev(name, r)))}

\* the key file of the identity holds the content a successful write leaves
ValidKeyFile(nwr) ==
    /\ IsFile(files, KeyFilename(nwr))
    /\ files[KeyFilename(nwr)] \in ValidContents

\* every key file of `name` is as a successful write leaves it
WrittenSuccessfully(name) ==
    \A r \in RevisionsOf(name) : ValidKeyFile(NameWithRev(name, r))

\* process p's last write succeeded and was for identity nwr
WroteOk(p, nwr) == Returned(p) /\ result[p] = "ok" /\ arg[p].nwr = nwr

LookupOf(op, a) == lkOp = op /\ lkArg = a

EnumeratedRevisions == {lkValue[i].rev : i \in 1..Len(lkValue)}

\* ------------------------------------------------------------------ C22
\* C22: with keys of name N successfully written under two or more
\* revisions, in whatever order, the latest-revision lookup for N returns
\* the key of N with the highest of those revisions.
C22_LatestIsHighestRevision ==
    \A name \in Names :
        (LookupOf("latest_ring_key_revision", <<name>>)
            /\ Cardinality(RevisionsOf(name)) >= 2
            /\ WrittenSuccessfully(name))
        => /\ lkResult = None
           /\ Len(lkValue) = 1
           /\ lkValue[1].name = <<name>>
           /\ lkValue[1].rev \in RevisionsOf(name)
           /\ \A r \in RevisionsOf(name) : RevIndex(r) <= RevIndex(lkValue[1].rev)

C22_Witness ==
    /\ LookupOf("latest_ring_key_revision", <<"beyonce">>)
    /\ WroteOk("p1", NameWithRev("beyonce", RevTable[2]))
    /\ WroteOk("p2", NameWithRev("beyonce", RevTable[1]))
    /\ lkResult = None
    /\ lkValue[1].rev = RevTable[2]

\* ------------------------------------------------------------------ C23
\* C23: the latest-revision lookup for N fails with 'No revisions found for
\* N sym key' exactly when the cache holds no key file of N; in that case
\* the enumeration for N returns an empty list and no error.
C23_NoRevisionsFound ==
    \A name \in Names :
        /\ LookupOf("latest_ring_key_revision", <<name>>)
            => (lkResult = CacheError.NoRevisions <=> RevisionsOf(name) = {})
        /\ (LookupOf("get_pairs_for", <<name>>) /\ RevisionsOf(name) = {})
            => (lkResult = None /\ lkValue = <<>>)

C23_Witness ==
    /\ LookupOf("latest_ring_key_revision", <<"jayz">>)
    /\ RevisionsOf("jayz") = {}
    /\ RevisionsOf("beyonce") # {}
    /\ lkResult = CacheError.NoRevisions

\* ------------------------------------------------------------------ C24
\* C24: when the key files of N are those successful writes left, the
\* enumeration for N returns one key of N per revision that was written,
\* each once, whatever was written for other names.
C24_OneKeyPerRevision ==
    \A name \in Names :
        (LookupOf("get_pairs_for", <<name>>) /\ WrittenSuccessfully(name))
        => /\ lkResult = None
           /\ EnumeratedRevisions = RevisionsOf(name)
           /\ Len(lkValue) = Cardinality(RevisionsOf(name))
           /\ \A i \in 1..Len(lkValue) : lkValue[i].name = <<name>>
           /\ \A p \in Procs, r \in RevisionTokens :
                WroteOk(p, NameWithRev(name, r)) => r \in EnumeratedRevisions

C24_Witness ==
    /\ LookupOf("get_pairs_for", <<"beyonce">>)
    /\ WroteOk("p1", NameWithRev("beyonce", RevTable[1]))
    /\ WroteOk("p2", NameWithRev("jayz", RevTable[1]))
    /\ arg["p1"].op = "write_ring_key"
    /\ lkResult = None
    /\ Len(lkValue) = 1

\* ------------------------------------------------------------------ C25
\* C25: the lookup of one identity returns a key with that name and revision
\* when the identity's key file is as a successful write left it, also after
\* later revisions of the name were written; when the identity has no file
\* it fails with 'No secret keys found for name_with_rev'.
C25_WriteThenRead ==
    \A nwr \in LookupIds :
        (LookupOf("get_pair_for", nwr) /\ NameWithRevParses(nwr))
        => /\ ValidKeyFile(nwr)
                => /\ lkResult = None
                   /\ Len(lkValue) = 1
                   /\ lkValue[1].name \o <<"-", lkValue[1].rev>> = nwr
           /\ ~IsFile(files, KeyFilename(nwr))
                => /\ lkResult = CacheError.NoSecretKeys
                   /\ lkValue = <<>>

C25_Witness ==
    /\ LookupOf("get_pair_for", NameWithRev("beyonce", RevTable[1]))
    /\ Sequential("p1") /\ calls["p1"] = 2
    /\ WroteOk("p1", NameWithRev("beyonce", RevTable[2]))
    /\ ValidKeyFile(NameWithRev("beyonce", RevTable[1]))
    /\ lkResult = None
    /\ lkValue[1].rev = RevTable[1]

\* ------------------------------------------------------------------ C26
\* the key-file layout: banner, identity, blank line, base64 of the secret
KeyFileText(name, rev, text) ==
    <<<<"SYM-SEC-1">>, <<name, "-", rev>>, <<>>, <<text>>>>

FixtureContents ==
    { KeyFileText("beyonce", RevTable[1], "a2V5QQ=="),
      KeyFileText("beyonce", RevTable[2], "a2V5Qg=="),
      KeyFileText("jayz", RevTable[1], "a2V5QQ==") }

\* process p's last call wrote what content c says: the key parsed from c
\* through write_ring_key, or c itself through write_file_from_str
WroteFrom(p, c) ==
    \/ arg[p].op = "write_ring_key" /\ arg[p].key = ParseRingKey(c)
    \/ arg[p].op = "write_file_from_str" /\ arg[p].content = c

\* C26: for valid key-file content c whose identity has no file yet, writing
\* the key parsed from c, or c itself through write_file_from_str, creates
\* <name>-<revision>.sym.key holding exactly c and changes no other file.
C26_ParseThenWriteRoundTrip ==
    \A p \in Procs, c \in FixtureContents :
        (Sequential(p) /\ Returned(p) /\ faults = 0 /\ WroteFrom(p, c)
            /\ KeyFilename(c[2]) \notin DOMAIN pre[p])
        => /\ result[p] = "ok"
           /\ IsFile(files, KeyFilename(c[2]))
           /\ files[KeyFilename(c[2])] = c
           /\ files = FsWrite(pre[p], KeyFilename(c[2]), c)

C26_Witness ==
    \E p \in Procs :
        LET c == KeyFileText("beyonce", RevTable[2], "a2V5Qg==")
        IN  /\ Sequential(p) /\ Returned(p) /\ faults = 0
            /\ arg[p].op = "write_ring_key" /\ arg[p].key = ParseRingKey(c)
            /\ KeyFilename(c[2]) \notin DOMAIN pre[p]
            /\ result[p] = "ok"
            /\ files[KeyFilename(c[2])] = c

\* ------------------------------------------------------------------ C27
\* C27: one process writes two ring keys of one name and one revision with
\* different secrets, with no filesystem failure: the second write_ring_key
\* returns the conflict error, the first key's file keeps its content and no
\* file is added, under a later revision or any other name.
C27_SameSecondCollisionRejected ==
    \A p \in Procs :
        (Sequential(p) /\ Returned(p) /\ faults = 0
            /\ arg[p].op = "write_ring_key" /\ arg[p].key.secret # None
            /\ ExistedDifferent(p)
            /\ pre[p][Keyfile(p)] \in ValidContents
            /\ ParseRingKey(pre[p][Keyfile(p)]).secret # arg[p].key.secret)
        => /\ result[p] = "conflict"
           /\ files = pre[p]
           /\ FilesOfIdentity(files, arg[p].nwr) = {Keyfile(p)}
           /\ \A r \in RevisionTokens :
                IsFile(files, KeyFilename(NameWithRev(arg[p].key.name, r)))
                    => KeyFilename(NameWithRev(arg[p].key.name, r)) \in DOMAIN pre[p]

C27_Witness ==
    \E p \in Procs :
        /\ Sequential(p) /\ Returned(p) /\ faults = 0 /\ calls[p] = 2
        /\ arg[p].op = "write_ring_key"
        /\ arg[p].key = [name |-> "beyonce", rev |-> RevTable[1], secret |-> "keyB"]
        /\ Keyfile(p) \in DOMAIN pre[p]
        /\ ParseRingKey(pre[p][Keyfile(p)]).secret = "keyA"
        /\ result[p] = "conflict"
        /\ files = pre[p]

\* ------------------------------------------------------------------ C28
\* decrypt was given the key that encrypted and what encrypt returned
GivenBack ==
    /\ crPc = "decrypted"
    /\ crSealed.err = None /\ crSealed.nonce # None
    /\ crGiven = [key |-> crKey, nonce |-> crSealed.nonce,
                  ciphertext |-> crSealed.ciphertext]

\* C28: for every plaintext and every ring key holding its secret, decrypt
\* of the nonce and ciphertext that encrypt returned, with the same key,
\* returns exactly that plaintext.
C28_EncryptDecryptRoundTrip ==
    GivenBack => (crOpened.err = None /\ crOpened.data = crData)

C28_Witness ==
    /\ GivenBack
    /\ crData = <<"Not", "going">>
    /\ crOpened.err = None
    /\ crOpened.data = <<"Not", "going">>

\* ------------------------------------------------------------------ C29
\* C29: with the secret present, decrypt with a nonce of the wrong length
\* fails with 'Invalid size of nonce' whatever the ciphertext, and decrypt
\* of a ciphertext that does not authenticate under key and nonce fails
\* with 'Secret key and nonce could not decrypt ciphertext'; neither
\* returns plaintext.
C29_BadNonceOrCiphertext ==
    (crPc = "decrypted" /\ crGiven.key.secret # None)
    => /\ NonceLen(crGiven.nonce) # NONCEBYTES
            => (crOpened.err = CryptError.NonceSize /\ crOpened.data = <<>>)
       /\ (/\ NonceLen(crGiven.nonce) = NONCEBYTES
           /\ ~(\E d \in Plaintexts :
                    crGiven.ciphertext = Seal(d, crGiven.nonce, crGiven.key.secret)))
            => (crOpened.err = CryptError.Undecryptable /\ crOpened.data = <<>>)

C29_Witness ==
    /\ crPc = "decrypted"
    /\ crGiven.key = crKey /\ crKey.secret # None
    /\ crGiven.nonce = "crazyinlove"
    /\ crSealed.err = None /\ crGiven.ciphertext = crSealed.ciphertext
    /\ crOpened.err = CryptError.NonceSize

\* ------------------------------------------------------------------ C30
\* C30: encrypt and decrypt with a ring key that holds no secret fail with
\* 'Secret key is required but not present'; decrypt returns this error
\* also for a nonce of the right length and a ciphertext another key sealed,
\* and for a nonce of the wrong length.
C30_SecretRequired ==
    /\ (crPc # "idle" /\ crKey # NoKey /\ crKey.secret = None)
        => (crSealed.err = CryptError.NoSecret /\ crSealed.ciphertext = NoCiphertext)
    /\ (crPc = "decrypted" /\ crGiven.key.secret = None)
        => (crOpened.err = CryptError.NoSecret /\ crOpened.data = <<>>)

C30_Witness ==
    /\ crPc = "decrypted"
    /\ crKey.secret # None /\ crSealed.err = None
    /\ crGiven.key.secret = None
    /\ crGiven.nonce = crSealed.nonce
    /\ crGiven.ciphertext = crSealed.ciphertext
    /\ crOpened.err = CryptError.NoSecret

\* ------------------------------------------------------------------ C32
\* the most recent revision of `name` that has a key file
HighestRevision(name) ==
    CHOOSE r \in RevisionsOf(name) :
        \A o \in RevisionsOf(name) : RevIndex(o) <= RevIndex(r)

\* C32 (as claimed): whenever name N has a key file, the latest-revision
\* lookup for N gives what reading N's highest-revision file gives, whatever
\* the files of N's older revisions hold.
C32_LatestReadsNewestOnly ==
    \A name \in Names :
        (LookupOf("latest_ring_key_revision", <<name>>) /\ RevisionsOf(name) # {})
        => /\ lkResult = GetPairFor(files, NameWithRev(name, HighestRevision(name))).err
           /\ lkValue = GetPairFor(files, NameWithRev(name, HighestRevision(name))).keys

\* ------------------------------------------------------------------ C35
\* the error the shape of a key string calls for: the version banner, then
\* the number of lines
ShapeErrorOf(c) ==
    IF c = <<>> THEN "malformed1"
    ELSE IF c[1] # <<"SYM-SEC-1">> THEN "version"
    ELSE IF Len(c) = 1 THEN "malformed2"
    ELSE IF Len(c) < 4 THEN "malformed3"
    ELSE None

\* C35: a write_file_from_str call whose content has no lines, another
\* banner than SYM-SEC-1, no second line or fewer than four lines returns
\* the error of that case in the step of the call itself, and that step
\* leaves every file of the cache, temporary or key file, as it was.
C35_ShapeCheckedBeforeDisk ==
    [][\A p \in Procs :
        (/\ calls'[p] = calls[p] + 1
         /\ arg'[p].op = "write_file_from_str"
         /\ ShapeErrorOf(arg'[p].content) # None)
        => /\ files' = files
           /\ pc'[p] = "idle"
           /\ result'[p] = ShapeErrorOf(arg'[p].content)]_vars

C35_Witness ==
    \E p \in Procs :
        /\ Returned(p) /\ calls[p] = 2
        /\ arg[p].op = "write_file_from_str"
        /\ arg[p].content = <<SECRET_SYM_KEY_VERSION, NameWithRev("beyonce", RevTable[1])>>
        /\ result[p] = "malformed3"
        /\ files # <<>>
        /\ KeyFilesOnly(files) = pre[p]

\* ------------------------------------------------------------------ C36
\* what a write of valid content c does to a cache whose key files are fs
OutcomeClass(fs, c) ==
    IF ~IsFile(fs, KeyFilename(c[2])) THEN "written"
    ELSE IF fs[KeyFilename(c[2])] = c THEN "no-op"
    ELSE "conflict"

\* C36: with one process writing and no filesystem failure, a write of valid
\* content c, be it write_ring_key of the key parsed from c or
\* write_file_from_str(c), has the outcome the cache before the call and c
\* determine: written, no-op or conflict error, with the same key files and
\* contents afterwards on either path.
C36_WritePathsEquivalent ==
    \A p \in Procs, c \in FixtureContents :
        (Sequential(p) /\ Returned(p) /\ faults = 0 /\ WroteFrom(p, c))
        => /\ OutcomeClass(pre[p], c) = "written"
                => (result[p] = "ok" /\ files = FsWrite(pre[p], KeyFilename(c[2]), c))
           /\ OutcomeClass(pre[p], c) = "no-op"
                => (result[p] = "ok" /\ files = pre[p])
           /\ OutcomeClass(pre[p], c) = "conflict"
                => (result[p] = "conflict" /\ files = pre[p])

C36_Witness ==
    \E p \in Procs, c \in FixtureContents :
        /\ Sequential(p) /\ Returned(p) /\ faults = 0 /\ calls[p] = 2
        /\ arg[p].op = "write_file_from_str" /\ arg[p].content = c
        /\ OutcomeClass(pre[p], c) = "conflict"
        /\ pre[p][KeyFilename(c[2])] \in ValidContents
        /\ result[p] = "conflict"

\* ------------------------------------------------------------------ C37
\* C37: every key a successful lookup returns (one identity, enumeration,
\* latest revision) holds its secret, and so does the key a successful
\* write_file_from_str loads; encrypt with such a key does not fail with the
\* missing-secret error.
C37_LoadedKeysHoldSecret ==
    /\ (lkOp # None /\ lkResult = None)
        => \A i \in 1..Len(lkValue) :
            /\ lkValue[i].secret # None
            /\ \A d \in Plaintexts, n \in GenNonces :
                    RingKeyEncrypt(lkValue[i], d, n).err = None
    /\ \A p \in Procs :
        (Sequential(p) /\ Returned(p) /\ arg[p].op = "write_file_from_str"
            /\ result[p] = "ok")
        => /\ GetPairFor(files, arg[p].nwr).err = None
           /\ GetPairFor(files, arg[p].nwr).keys[1].secret # None

C37_Witness ==
    /\ LookupOf("get_pairs_for", <<"beyonce">>)
    /\ lkResult = None
    /\ Len(lkValue) = 2
    /\ lkValue[1].secret = "keyB"
    /\ \E p \in Procs : Returned(p) /\ arg[p].op = "write_file_from_str" /\ result[p] = "ok"

\* ------------------------------------------------------------------ C38
\* C38: sign computes the signature before it opens the destination: when
\* signing fails (no secret in the key, source unreadable) sign returns the
\* error with the filesystem as it was at the call, and the destination is
\* only ever touched once the signature is there.
C38_SignatureBeforeDestination ==
    /\ (sgPc = "returned" /\ sgSig = <<>>)
        => (sgResult \in {"no_secret", "io"} /\ files = sgPre)
    /\ (sgPc # "idle" /\ files # sgPre) => sgSig # <<>>

C38_Witness ==
    /\ sgPc = "returned"
    /\ sgSig = <<>>
    /\ sgKey.secret = None
    /\ sgResult = "no_secret"
    /\ IsFile(sgPre, DstPath)
    /\ files[DstPath] = OldPackage

\* ------------------------------------------------------------------ C33
\* the errors a header line can end the read with
HeaderErrors == {ErrorOfLine[k][i] : k \in {"missing", "invalid"}, i \in 1..5}

\* how many header lines the read has asked the stream for
LineReads ==
    Cardinality({i \in 1..Len(rdLog) : \E j \in 1..5 : rdLog[i] = HeaderLineNames[j]})

\* the read is past the delimiter line, the stream at the payload
PayloadReady ==
    /\ Len(rdLog) >= 5
    /\ ~(HartReturned /\ rdResult \in {HartError.NoDelimiter, HartError.BadDelimiter})

\* C33: the header read asks for at most five lines and never stops between
\* two of them: every line step either returns an error or moves on, and the
\* read is past the header (payload ready) exactly when all five header lines
\* are there and each is valid; otherwise it has returned the error of a line.
C33_HeaderReadBounded ==
    /\ LineReads <= 5
    /\ ~InLog("verify") => rdPos <= 5
    /\ rdPc \in {"format", "signer", "hash_type", "signature", "delimiter"}
        => /\ LineReads < 5
           /\ ENABLED (ReadFormatLine \/ ReadSignerLine \/ ReadHashTypeLine
                       \/ ReadSignatureLine \/ ReadDelimiterLine)
    /\ PayloadReady => (FirstBad(HartFile) = 0 /\ rdPos >= 5 /\ LineReads = 5)
    /\ rdPc \in {"ready", "lookup"} => (PayloadReady /\ rdPos = 5)
    /\ (HartAnswered /\ FirstBad(HartFile) = 0) => PayloadReady
    /\ (HartAnswered /\ ~PayloadReady)
        => (rdResult \in HeaderErrors /\ FirstBad(HartFile) # 0)

C33_Witness ==
    /\ rdOp = "get_archive_reader"
    /\ HartAnswered
    /\ PayloadReady
    /\ FirstBad(HartFile) = 0
    /\ rdResult = "ok"
    /\ rdValue.reader = 5
    /\ HartFile[1] # HART_FORMAT_VERSION

\* ------------------------------------------------------------------ C34
\* the literal a header line is compared with, for the lines that have one
ExpectedLine(i) ==
    CASE i = 1 -> HART_FORMAT_VERSION
      [] i = 3 -> SIG_HASH_TYPE
      [] i = 5 -> <<>>

\* the read stopped at header line i with that line's error
StoppedAtLine(i) ==
    /\ HartReturned
    /\ Len(rdLog) = i
    /\ rdResult \in {ErrorOfLine.missing[i], ErrorOfLine.invalid[i]}

\* C34: header lines are compared and parsed trimmed. A format, hash-type or
\* delimiter line that is the expected value with whitespace around it does
\* not stop the read, and the header handed back (by the header read and by
\* get_artifact_header) holds the trimmed text of each line.
C34_HeaderLinesTrimmed ==
    /\ \A i \in {1, 3, 5} :
          (Len(rdLog) >= i /\ Len(HartFile) >= i /\ Trim(HartFile[i]) = ExpectedLine(i))
          => ~StoppedAtLine(i)
    /\ (Len(rdLog) >= 1 /\ ~StoppedAtLine(1)) => rdHeader.format = Trim(HartFile[1])
    /\ (Len(rdLog) >= 2 /\ ~StoppedAtLine(2))
        => rdHeader.signer = ParseNamedRevision(Trim(HartFile[2]))
    /\ (Len(rdLog) >= 3 /\ ~StoppedAtLine(3)) => rdHeader.hash_type = Trim(HartFile[3])
    /\ (Len(rdLog) >= 4 /\ ~StoppedAtLine(4))
        => rdHeader.signature = DecodeSignature(Trim(HartFile[4]))
    /\ (rdOp = "get_artifact_header" /\ HartReturned /\ rdResult = "ok")
        => /\ rdValue.header.format_version = Trim(HartFile[1])
           /\ rdValue.header.key_name = Trim(HartFile[2])
           /\ rdValue.header.hash_type = Trim(HartFile[3])
           /\ rdValue.header.signature_raw = Trim(HartFile[4])

C34_Witness ==
    /\ rdOp = "get_artifact_header"
    /\ HartReturned
    /\ rdResult = "ok"
    /\ HartFile[1] = Padded(HART_FORMAT_VERSION)
    /\ rdValue.header.format_version = HART_FORMAT_VERSION
    /\ rdValue.header.format_version # HartFile[1]

\* --------------------------------------------------- hab ring key generate
\* RingKey::new(name): a key of the revision KeyRevision::new() gave and the
\* secret secretbox::gen_key() drew; the filesystem is not an input and nothing
\* is written
NewRingKey_NoSecret(name, rev, secret) == [name |-> name, rev |-> rev, secret |-> None]

NewRingKey(name, rev, secret) == [name |-> name, rev |-> rev, secret |-> secret]

\* generate::start up to `let pair = RingKey::new(ring)`
Generate(p, name, rev, secret) ==
    /\ pc[p] = "idle" /\ gnKey[p] = NoKey /\ lkOp = None
    /\ gnKey' = [gnKey EXCEPT ![p] = NewRingKey(name, rev, secret)]
    /\ UNCHANGED <<files, faults, kcVars, sgVars, rdVars, lkVars, crVars,
                   upPc, upSecret, upTries, upLog, upResult, svIn, svOut>>

\* the generated key is handed to the cache's write
WriteGenerated(p) ==
    /\ gnKey[p] # NoKey
    /\ calls[p] = 0
    /\ CallWriteRingKey(p, gnKey[p])

NextGenerate ==
    \E p \in Procs :
        \/ \E name \in Names, rev \in Revisions, secret \in SymKeys :
                Generate(p, name, rev, secret)
        \/ WriteGenerated(p)
        \/ MwkIsFile(p)
        \/ MwkHash(p)
        \/ MwkTmp(p)
        \/ MwkWritePart(p)
        \/ MwkWriteAll(p)
        \/ MwkPersist(p)
        \/ IoError(p)

SpecGenerate == Init /\ [][NextGenerate]_vars

\* ------------------------------------------------------------------ C31
\* C31: generating a ring key leaves the cache directory as it is: the step
\* that makes the key changes no file, the cache stays empty until a write
\* has been called, and the key made holds its secret.
C31_GenerateTouchesNoFile ==
    [][/\ \A p \in Procs :
            gnKey'[p] # gnKey[p]
            => /\ files' = files
               /\ calls' = calls
               /\ gnKey'[p].secret \in SymKeys
       /\ TotalCalls' = 0 => files' = <<>>]_vars

C31_Witness ==
    /\ gnKey["p1"] # NoKey
    /\ gnKey["p1"].secret = "keyA"
    /\ gnKey["p2"].secret = "keyB"
    /\ TotalCalls = 0
    /\ files = <<>>

\* -------------------------------------------------- hab origin key upload
\* bound on the attempts one retry_builder_api! loop makes
MaxTries == 2

UploadError ==
    [Client |-> "client", Ui |-> "ui", KeyFile |-> "key file",
     KeyUploadFailed |-> "key upload failed"]

\* what Builder answers a put with: Ok, APIError(CONFLICT), any other error
PutResponses == {"ok", "conflict", "error"}

\* one run of the async block of the public upload: ui.status(Uploading)?,
\* the put, then the status line of an Ok or CONFLICT answer
PublicAttempt_ErrorPasses(uiBefore, resp, uiAfter) ==
    IF ~uiBefore THEN [put |-> None, ok |-> FALSE] ELSE [put |-> resp, ok |-> uiAfter]

PublicAttempt(uiBefore, resp, uiAfter) ==
    IF ~uiBefore
    THEN [put |-> None, ok |-> FALSE]
    ELSE IF resp \in {"ok", "conflict"}
         THEN [put |-> resp, ok |-> uiAfter]
         ELSE [put |-> resp, ok |-> FALSE]

\* one run of the async block of the secret upload: every Err is an Err
SecretAttempt(uiBefore, resp) ==
    IF ~uiBefore THEN [put |-> None, ok |-> FALSE] ELSE [put |-> resp, ok |-> resp = "ok"]

\* ghost: the puts sent to Builder so far
LogPut(key, attempt) ==
    IF attempt.put = None THEN upLog ELSE Append(upLog, [key |-> key, put |-> attempt.put])

UploadReturns(r) ==
    /\ upPc' = "returned"
    /\ upResult' = r

\* start up to the first retry loop: Client::new, ui.begin, get_name_with_rev
\* and parse_name_with_rev each return early on failure
UploadStart(secret, early) ==
    /\ upPc = "idle"
    /\ upSecret' = secret
    /\ IF early # None THEN UploadReturns(early) ELSE upPc' = "public" /\ UNCHANGED upResult
    /\ UNCHANGED <<upTries, upLog, gnKey, svIn, svOut,
                   files, faults, kcVars, sgVars, rdVars, lkVars, crVars>>

\* one attempt of the public upload
PutOriginKey(uiBefore, resp, uiAfter) ==
    /\ upPc = "public"
    /\ upTries < MaxTries
    /\ upLog' = LogPut("public", PublicAttempt(uiBefore, resp, uiAfter))
    /\ IF PublicAttempt(uiBefore, resp, uiAfter).ok
       THEN upPc' = "public_done" /\ upTries' = 0
       ELSE upPc' = "public" /\ upTries' = upTries + 1
    /\ UNCHANGED <<upSecret, upResult, gnKey, svIn, svOut,
                   files, faults, kcVars, sgVars, rdVars, lkVars, crVars>>

\* a retry loop stops retrying: its last error becomes key_upload_failed
RetriesGiveUp ==
    /\ upPc \in {"public", "secret"}
    /\ upTries >= 1
    /\ UploadReturns(UploadError.KeyUploadFailed)
    /\ UNCHANGED <<upSecret, upTries, upLog, gnKey, svIn, svOut,
                   files, faults, kcVars, sgVars, rdVars, lkVars, crVars>>

\* ui.end of the public upload, then the secret key file if one was given
PublicEnd(uiOk, keyFileOk) ==
    /\ upPc = "public_done"
    /\ IF ~uiOk THEN UploadReturns(UploadError.Ui)
       ELSE IF ~upSecret THEN UploadReturns("ok")
       ELSE IF ~keyFileOk THEN UploadReturns(UploadError.KeyFile)
       ELSE upPc' = "secret" /\ UNCHANGED upResult
    /\ UNCHANGED <<upSecret, upTries, upLog, gnKey, svIn, svOut,
                   files, faults, kcVars, sgVars, rdVars, lkVars, crVars>>

\* one attempt of the secret upload
PutOriginSecretKey(uiBefore, resp) ==
    /\ upPc = "secret"
    /\ upTries < MaxTries
    /\ upLog' = LogPut("secret", SecretAttempt(uiBefore, resp))
    /\ IF SecretAttempt(uiBefore, resp).ok
       THEN upPc' = "secret_done" /\ upTries' = 0
       ELSE upPc' = "secret" /\ upTries' = upTries + 1
    /\ UNCHANGED <<upSecret, upResult, gnKey, svIn, svOut,
                   files, faults, kcVars, sgVars, rdVars, lkVars, crVars>>

\* ui.status(Uploaded) and ui.end of the secret upload, then Ok(())
SecretEnd(uiOk) ==
    /\ upPc = "secret_done"
    /\ UploadReturns(IF uiOk THEN "ok" ELSE UploadError.Ui)
    /\ UNCHANGED <<upSecret, upTries, upLog, gnKey, svIn, svOut,
                   files, faults, kcVars, sgVars, rdVars, lkVars, crVars>>

NextUpload ==
    \/ \E secret \in BOOLEAN,
          early \in {None, UploadError.Client, UploadError.Ui, UploadError.KeyFile} :
            UploadStart(secret, early)
    \/ \E uiBefore \in BOOLEAN, resp \in PutResponses, uiAfter \in BOOLEAN :
            PutOriginKey(uiBefore, resp, uiAfter)
    \/ RetriesGiveUp
    \/ \E uiOk \in BOOLEAN, keyFileOk \in BOOLEAN : PublicEnd(uiOk, keyFileOk)
    \/ \E uiBefore \in BOOLEAN, resp \in PutResponses : PutOriginSecretKey(uiBefore, resp)
    \/ \E uiOk \in BOOLEAN : SecretEnd(uiOk)

SpecUpload == Init /\ [][NextUpload]_vars

\* ------------------------------------------------------------------ C39
PutsOf(key) == {i \in 1..Len(upLog) : upLog[i].key = key}

\* Builder's answer to the last put of the public key
LastPublicPut ==
    upLog[CHOOSE i \in PutsOf("public") : \A j \in PutsOf("public") : j <= i].put

\* C39: a put of the secret key is sent only when a secret key file was given
\* and after the last put of the public key was answered Ok or CONFLICT; when
\* the last put of the public key was answered with another error, no secret
\* put is ever sent and start, once returned, has returned key-upload-failed.
C39_SecretOnlyAfterPublic ==
    /\ PutsOf("secret") # {}
        => /\ upSecret
           /\ PutsOf("public") # {}
           /\ LastPublicPut \in {"ok", "conflict"}
           /\ \A i \in PutsOf("public"), j \in PutsOf("secret") : i < j
    /\ (PutsOf("public") # {} /\ LastPublicPut = "error")
        => /\ PutsOf("secret") = {}
           /\ upPc \in {"public", "returned"}
           /\ upPc = "returned" => upResult = UploadError.KeyUploadFailed
    /\ (upPc = "returned" /\ upResult = "ok" /\ upSecret) => PutsOf("secret") # {}

C39_Witness ==
    /\ upPc = "returned"
    /\ upResult = "ok"
    /\ upSecret
    /\ upLog = <<[key |-> "public", put |-> "error"], [key |-> "public", put |-> "conflict"],
                 [key |-> "secret", put |-> "ok"]>>

\* ------------------------------------- hab svc update: Update -> SvcUpdate
NoFieldsError == "No fields specified for update"

\* the field of Update each optional field of SvcUpdate is set from
InputOf ==
    [binds |-> "bind", binding_mode |-> "binding_mode", bldr_url |-> "bldr_url",
     bldr_channel |-> "channel", group |-> "group", svc_encrypted_password |-> "password",
     topology |-> "topology", update_strategy |-> "strategy",
     health_check_interval |-> "health_check_interval",
     shutdown_timeout |-> "shutdown_timeout", update_condition |-> "update_condition"]

\* `v as i32` of the protocol's enums; the first variant of each is 0
EnumAsI32 ==
    [standalone |-> 0, leader |-> 1, none |-> 0, rolling |-> 2, relaxed |-> 0, strict |-> 1,
     latest |-> 0]

\* the value a caller gives each field it gives
GivenValue ==
    [bind |-> <<"db:redis.default">>,
     binding_mode |-> "relaxed",
     bldr_url |-> [scheme |-> "https", host |-> "bldr.habitat.sh"],
     channel |-> [ident |-> "stable"],
     group |-> "prod",
     password |-> "hunter2",
     topology |-> "standalone",
     strategy |-> "rolling",
     health_check_interval |-> [seconds |-> 30],
     shutdown_timeout |-> [seconds |-> 8],
     update_condition |-> "latest"]

\* an Update with the fields of `given` set; Some(vec![]) is a given bind list
MkUpdate(windows, given, emptyBind) ==
    [windows |-> windows,
     pkg_ident |-> <<"core", "/", "redis">>,
     opt |-> [f \in UpdateFields |->
                IF f \notin given THEN <<>>
                ELSE IF f = "bind" /\ emptyBind THEN <<<<>>>>
                ELSE <<GivenValue[f]>>]]

\* the Update requests: the password field exists on Windows only
Updates ==
    {MkUpdate(w, given, e) :
        w \in BOOLEAN, given \in SUBSET UpdateFields, e \in BOOLEAN}

\* the conversion each field's value goes through on its way into the message
ConvertField(f, v) ==
    CASE f = "bldr_url" -> <<v.scheme, "://", v.host, "/">>
      [] f = "channel" -> v.ident
      [] f = "bind" -> [binds |-> v]
      [] f \in {"group", "password"} -> v
      [] f = "health_check_interval" -> [seconds |-> v.seconds]
      [] f \in {"binding_mode", "topology", "strategy", "update_condition"} -> EnumAsI32[v]
      [] f = "shutdown_timeout" -> v.seconds

\* Option::map
OptionMap(f, o) == IF o = <<>> THEN <<>> ELSE <<ConvertField(f, o[1])>>

\* the `if let SvcUpdate { ident: _, <every other field>: None }` pattern
AllFieldsNone_ButCondition(msg) ==
    \A g \in SvcUpdateFields \ {"update_condition"} : msg.opt[g] = <<>>

AllFieldsNone(msg) == \A g \in SvcUpdateFields : msg.opt[g] = <<>>

\* <SvcUpdate as TryFrom<Update>>::try_from
SvcUpdateTryFrom(u) ==
    LET msg == [ident |-> <<u.pkg_ident>>,
                opt |-> [g \in SvcUpdateFields |->
                            IF g = "svc_encrypted_password" /\ ~u.windows
                            THEN <<>>
                            ELSE OptionMap(InputOf[g], u.opt[InputOf[g]])]]
    IN  IF AllFieldsNone(msg)
        THEN [err |-> NoFieldsError, msg |-> SvcUpdateDefault]
        ELSE [err |-> None, msg |-> msg]

InitSvc ==
    /\ files = <<>>
    /\ faults = 0
    /\ KcIdle
    /\ SgIdle
    /\ pubCache = <<>>
    /\ RdIdle
    /\ LkIdle
    /\ CrIdle
    /\ gnKey = [p \in Procs |-> NoKey]
    /\ upPc = "idle"
    /\ upSecret = FALSE
    /\ upTries = 0
    /\ upLog = <<>>
    /\ upResult = None
    /\ svIn \in {u \in Updates : u.windows \/ u.opt["password"] = <<>>}
    /\ svOut = NoConversion

TryFromUpdate ==
    /\ svOut = NoConversion
    /\ svOut' = SvcUpdateTryFrom(svIn)
    /\ UNCHANGED <<svIn, gnKey, upPc, upSecret, upTries, upLog, upResult,
                   files, faults, kcVars, sgVars, rdVars, lkVars, crVars>>

NextSvc == TryFromUpdate

SpecSvc == InitSvc /\ [][NextSvc]_vars

\* ------------------------------------------------------------------ C40
Converted == svOut # NoConversion

\* C40: the conversion of an Update fails with "No fields specified for
\* update" exactly when every optional field of the request is absent;
\* otherwise it gives a message with its ident set in which each optional
\* field is present exactly when the field it is set from was given.
C40_UpdateNeedsOneField ==
    Converted
    => /\ svOut.err \in {None, NoFieldsError}
       /\ svOut.err = NoFieldsError <=> \A f \in UpdateFields : svIn.opt[f] = <<>>
       /\ svOut.err = None
           => /\ svOut.msg.ident = <<svIn.pkg_ident>>
              /\ \A g \in SvcUpdateFields :
                    svOut.msg.opt[g] # <<>> <=> svIn.opt[InputOf[g]] # <<>>

C40_Witness ==
    /\ Converted
    /\ svOut.err = None
    /\ svIn.opt["bind"] = <<<<>>>>
    /\ svIn.opt["topology"] = <<"standalone">>
    /\ \A f \in UpdateFields \ {"bind", "topology"} : svIn.opt[f] = <<>>
    /\ svOut.msg.opt["binds"] = <<[binds |-> <<>>]>>
    /\ svOut.msg.opt["topology"] = <<0>>


============================================================================
